---- MODULE Spec2Model ----
(***************************************************************************)
(* Model of the notification hub (HubManager, HubChannels, HubUsers) of    *)
(* backend/notification_hub.  The hub keeps a registry of topic channels,  *)
(* each with a tokio broadcast sender and a set of subscriber ids, a       *)
(* registry of users with the receivers they hold, and a dispatcher task   *)
(* that moves messages from the ingress broadcast to the topic broadcasts. *)
(*                                                                         *)
(* A tokio broadcast channel is modelled by the sequence of values sent on *)
(* it (its log); a receiver that is read is a position in that log.        *)
(* subscribe() and resubscribe() give a receiver positioned at the current *)
(* tail.  The receivers that HubUsers and HubReceiver store are never read *)
(* (the hub only calls resubscribe() on them), so of those only the        *)
(* broadcast they are attached to is kept.                                 *)
(***************************************************************************)
EXTENDS Integers, Sequences, FiniteSets, TLC

VARIABLES
    hub_nodes,      \* HubManager.hub_nodes: the attached adapters, in order of attachment
    channels,       \* HubManager.channels: HubChannels, topic -> [sender, subscribers]
    subscribers,    \* HubManager.subscribers: HubUsers, user id -> (topic -> receiver)
    ingress,        \* the values sent on hub_sender (the ingress broadcast)
    hub_receiver,   \* position of HubManager.hub_receiver in the ingress
    dispatcher,     \* the task spawned by start: its position and the message it holds
    bus,            \* the values sent on each topic broadcast, by broadcast instance
    next_uuid,      \* number of user ids minted so far (Uuid::new_v4)
    next_chan,      \* number of topic broadcasts created so far
    op,             \* the register/unregister call in progress (it holds the channels lock)
    handles,        \* the HubReceivers returned to callers, by user id
    readers,        \* the receivers callers obtained with HubReceiver::receiver()
    dispatched,     \* history: what the dispatcher did with each message, in order
    reg,            \* history: per user id, when its register/unregister calls returned
    channel_map,    \* WebSocketServer.channel_map: topic -> the peers subscribed to it
    peers,          \* the server's connections by peer address: state, inbound, outbound queue
    sends,          \* history: the send_to_channel calls that wrote a Data envelope
    handled,        \* number of envelopes the server has handled
    map_lock,       \* the tokio Mutex of channel_map: its holder and its FIFO wait queue
    client          \* an adapter's reader task: what it reads from, its buffer, what it learned

vars == <<hub_nodes, channels, subscribers, ingress, hub_receiver, dispatcher, bus,
          next_uuid, next_chan, op, handles, readers, dispatched, reg,
          channel_map, peers, sends, handled, map_lock, client>>

\* the state of the WebSocket server and of the connections to it, and of
\* an adapter's reader task
wsvars == <<channel_map, peers, sends, handled, map_lock, client>>

(* ------------------------------ bounds -------------------------------- *)

MaxSubs == 2          \* register_to_channel calls (user ids minted, broadcasts created)
MaxMsgs == 2          \* messages published on the ingress
MaxAdapters == 2      \* adapters attached with add
MaxPeers == 2         \* connections accepted by the WebSocket server
MaxEnvelopes == 3     \* envelopes written to the server by its peers
MaxFrames == 2        \* frames a WebSocket client finds on its connection
MaxNameLen == 3       \* characters of a string given to a name constructor
MaxReads == 3         \* reads of the serial link that are counted
MaxLines == 2         \* complete lines in the byte stream a serial adapter reads
MaxBurst == 130       \* messages published in a burst to a slow subscriber
MaxInFlight == 2      \* messages of a burst published and not yet dispatched
MaxCalls == 1         \* register_to_channel calls while the clients' locks are watched

CHANNEL_CAPACITY == 100
BUFFER_SIZE == 1024

Topics == {"t1", "t2"}
\* "ws": WebSocketClient, whose subscribe/unsubscribe always return Ok (as do
\* the default methods of the trait, which the serial adapters keep);
\* "mock": any other implementation of the NotificationHub trait, whose
\* subscribe/unsubscribe return a Result and so may fail.
AdapterKinds == {"ws", "mock"}
UserIds == 1..MaxSubs
\* 0 is a user id that is never minted
AnyUserId == 0..MaxSubs
ChanIds == 1..MaxSubs
PeerAddrs == 1..MaxPeers

(* --------------------------- tokio broadcast --------------------------- *)

\* Sender::subscribe / Receiver::resubscribe: the position of the new
\* receiver, the current tail
TailOf(log) == Len(log)

\* usize::next_power_of_two
RECURSIVE PowerOfTwoFrom(_, _)
PowerOfTwoFrom(n, p) == IF p >= n THEN p ELSE PowerOfTwoFrom(n, 2 * p)

next_power_of_two(n) == PowerOfTwoFrom(n, 1)

\* broadcast::channel(CHANNEL_CAPACITY): the number of values the channel
\* retains; tokio rounds the requested capacity up to a power of two
BufferLen == next_power_of_two(CHANNEL_CAPACITY)

LaggedLate(cap, log, next) == Len(log) - next > cap + 1

\* Receiver::recv on a receiver at position next of a log: the receiver has
\* lagged when more than cap values were sent since its position
Lagged(cap, log, next) == Len(log) - next > cap

(* ------------------------------ HubChannels ---------------------------- *)

HubChannels_new == [t \in {} |-> [sender |-> 0, subscribers |-> {}]]

get_number_subscribers(chs, channel) ==
    IF channel \in DOMAIN chs THEN Cardinality(chs[channel].subscribers) ELSE 0

is_empty(chs, channel) ==
    IF channel \in DOMAIN chs THEN chs[channel].subscribers = {} ELSE TRUE

get_sender(chs, channel) ==
    IF channel \in DOMAIN chs THEN chs[channel].sender ELSE 0

HubChannels_subscribe_user_reuse(chs, channel, user_id, fresh) ==
    LET info == IF channel \in DOMAIN chs
                THEN chs[channel]
                ELSE [sender |-> IF fresh > 1 THEN fresh - 1 ELSE fresh, subscribers |-> {}]
    IN  [t \in DOMAIN chs \cup {channel} |->
            IF t = channel
            THEN [info EXCEPT !.subscribers = @ \cup {user_id}]
            ELSE chs[t]]

\* subscribe_user, given the user id it mints and the broadcast it creates
\* when the topic has no entry
HubChannels_subscribe_user(chs, channel, user_id, fresh) ==
    LET info == IF channel \in DOMAIN chs
                THEN chs[channel]
                ELSE [sender |-> fresh, subscribers |-> {}]
    IN  [t \in DOMAIN chs \cup {channel} |->
            IF t = channel
            THEN [info EXCEPT !.subscribers = @ \cup {user_id}]
            ELSE chs[t]]

HubChannels_unsubscribe_user_keep(chs, channel, user_id) ==
    IF channel \in DOMAIN chs
    THEN [chs EXCEPT ![channel].subscribers = @ \ {user_id}]
    ELSE chs

HubChannels_unsubscribe_user(chs, channel, user_id) ==
    IF channel \in DOMAIN chs
    THEN LET removed == [chs EXCEPT ![channel].subscribers = @ \ {user_id}]
         IN  IF is_empty(removed, channel)
             THEN [t \in DOMAIN removed \ {channel} |-> removed[t]]
             ELSE removed
    ELSE chs

(* ------------------------------- HubUsers ------------------------------ *)

HubUsers_new == [u \in {} |-> [t \in {} |-> 0]]

HubUsers_subscribe_user_none(users, channel, user_id, receiver) == users

\* subscribe_user(channel, hub_receiver): stores hub_receiver.resubscribe(),
\* a receiver on the same broadcast, under the channel
HubUsers_subscribe_user(users, channel, user_id, receiver) ==
    LET info == IF user_id \in DOMAIN users THEN users[user_id] ELSE [t \in {} |-> 0]
    IN  [u \in DOMAIN users \cup {user_id} |->
            IF u = user_id
            THEN [t \in DOMAIN info \cup {channel} |->
                    IF t = channel THEN receiver ELSE info[t]]
            ELSE users[u]]

HubUsers_unsubscribe_user_keep(users, channel, user_id) ==
    IF user_id \in DOMAIN users
    THEN [users EXCEPT ![user_id] = [t \in DOMAIN @ \ {channel} |-> @[t]]]
    ELSE users

HubUsers_unsubscribe_user(users, channel, user_id) ==
    IF user_id \in DOMAIN users
    THEN LET info == [t \in DOMAIN users[user_id] \ {channel} |-> users[user_id][t]]
         IN  IF DOMAIN info = {}
             THEN [u \in DOMAIN users \ {user_id} |-> users[u]]
             ELSE [users EXCEPT ![user_id] = info]
    ELSE users

(* ------------------------------ HubManager ----------------------------- *)

Idle == [pc |-> "idle", kind |-> "none"]

Started == dispatcher.pc # "off"

\* the channels mutex is held by register/unregister from entry to return
LockedByCaller == op.pc = "upstream"

HasReceiverCallerOnly(b) ==
    \/ \E u \in DOMAIN handles : handles[u] = b
    \/ \E u \in DOMAIN readers : readers[u].chan = b

\* a receiver is alive on broadcast b: one that HubUsers stores, a
\* HubReceiver a caller holds, or a receiver obtained from one
HasReceiver(b) ==
    \/ \E u \in DOMAIN subscribers : \E t \in DOMAIN subscribers[u] : subscribers[u][t] = b
    \/ \E u \in DOMAIN handles : handles[u] = b
    \/ \E u \in DOMAIN readers : readers[u].chan = b

\* HubManager::new
Init ==
    /\ hub_nodes = <<>>
    /\ channels = HubChannels_new
    /\ subscribers = HubUsers_new
    /\ ingress = <<>>
    /\ hub_receiver = 0
    /\ dispatcher = [pc |-> "off"]
    /\ bus = [b \in ChanIds |-> <<>>]
    /\ next_uuid = 0
    /\ next_chan = 0
    /\ op = Idle
    /\ handles = <<>>
    /\ readers = <<>>
    /\ dispatched = <<>>
    /\ reg = <<>>
    /\ channel_map = <<>>
    /\ peers = <<>>
    /\ sends = <<>>
    /\ handled = 0
    /\ map_lock = [holder |-> <<>>, queue |-> <<>>]
    /\ client = <<>>

\* HubManager::add; adapters are attached before start
add(kind) ==
    /\ op.pc = "idle"
    /\ ~Started
    /\ Len(hub_nodes) < MaxAdapters
    /\ hub_nodes' = Append(hub_nodes, kind)
    /\ UNCHANGED <<channels, subscribers, ingress, hub_receiver, dispatcher, bus,
                   next_uuid, next_chan, op, handles, readers, dispatched, reg>>
    /\ UNCHANGED wsvars

\* HubManager::start: every adapter gets the ingress sender, the dispatcher is spawned
start ==
    /\ op.pc = "idle"
    /\ dispatcher.pc = "off"
    /\ dispatcher' = [pc |-> "recv"]
    /\ UNCHANGED <<hub_nodes, channels, subscribers, ingress, hub_receiver, bus,
                   next_uuid, next_chan, op, handles, readers, dispatched, reg>>
    /\ UNCHANGED wsvars

RegisterTriggerAny(chs, channel) == get_number_subscribers(chs, channel) > 0

\* the condition under which register_to_channel calls the adapters
RegisterTrigger(chs, channel) == get_number_subscribers(chs, channel) = 1

\* the condition under which unregister_from_channel calls the adapters
UnregisterTrigger(chs, channel) == is_empty(chs, channel)

\* register_to_channel up to the call of register_to_hub_channel
register_to_channel(channel) ==
    /\ op.pc = "idle"
    /\ next_uuid < MaxSubs
    /\ LET user_id == next_uuid + 1
           chs == HubChannels_subscribe_user(channels, channel, user_id, next_chan + 1)
           receiver == get_sender(chs, channel)
           isnew == channel \notin DOMAIN channels
       IN  /\ channels' = chs
           /\ subscribers' = HubUsers_subscribe_user(subscribers, channel, user_id, receiver)
           /\ next_uuid' = user_id
           /\ next_chan' = IF isnew THEN next_chan + 1 ELSE next_chan
           /\ op' = [pc |-> "upstream", kind |-> "register", channel |-> channel,
                     user_id |-> user_id, receiver |-> receiver,
                     upstream |-> RegisterTrigger(chs, channel),
                     idx |-> 1, called |-> <<>>, failed |-> {}, result |-> "pending",
                     before |-> get_number_subscribers(channels, channel),
                     was_in |-> FALSE,
                     snap |-> [channels |-> channels', subscribers |-> subscribers']]
    /\ UNCHANGED <<hub_nodes, ingress, hub_receiver, dispatcher, bus, handles, readers,
                   dispatched, reg>>
    /\ UNCHANGED wsvars

\* unregister_from_channel up to the call of unregister_from_hub_channel
unregister_from_channel(channel, user_id) ==
    /\ op.pc = "idle"
    /\ LET chs == HubChannels_unsubscribe_user(channels, channel, user_id)
       IN  /\ channels' = chs
           /\ subscribers' = HubUsers_unsubscribe_user(subscribers, channel, user_id)
           /\ op' = [pc |-> "upstream", kind |-> "unregister", channel |-> channel,
                     user_id |-> user_id, receiver |-> 0,
                     upstream |-> UnregisterTrigger(chs, channel),
                     idx |-> 1, called |-> <<>>, failed |-> {}, result |-> "pending",
                     before |-> get_number_subscribers(channels, channel),
                     was_in |-> (channel \in DOMAIN channels
                                 /\ user_id \in channels[channel].subscribers),
                     snap |-> [channels |-> channels', subscribers |-> subscribers']]
    /\ UNCHANGED <<hub_nodes, ingress, hub_receiver, dispatcher, bus, next_uuid, next_chan,
                   handles, readers, dispatched, reg>>
    /\ UNCHANGED wsvars

\* register_to_hub_channel / unregister_from_hub_channel: the call of
\* subscribe / unsubscribe on the next adapter returns Ok
UpstreamOk ==
    /\ op.pc = "upstream"
    /\ op.upstream
    /\ op.result = "pending"
    /\ op.idx <= Len(hub_nodes)
    /\ op' = [op EXCEPT !.called = Append(@, op.idx), !.idx = @ + 1]
    /\ UNCHANGED <<hub_nodes, channels, subscribers, ingress, hub_receiver, dispatcher, bus,
                   next_uuid, next_chan, handles, readers, dispatched, reg>>
    /\ UNCHANGED wsvars

OnUpstreamErrRollback(chs, users) ==
    IF op.kind = "register"
    THEN [channels |-> HubChannels_unsubscribe_user(chs, op.channel, op.user_id),
          subscribers |-> HubUsers_unsubscribe_user(users, op.channel, op.user_id)]
    ELSE [channels |-> chs, subscribers |-> users]

OnUpstreamErrForget(chs, users) ==
    IF op.kind = "register"
    THEN [channels |-> HubChannels_unsubscribe_user(chs, op.channel, op.user_id),
          subscribers |-> users]
    ELSE [channels |-> chs, subscribers |-> users]

\* what the two registries are after an adapter call failed: the error is
\* propagated with `?` and nothing is undone
OnUpstreamErr(chs, users) == [channels |-> chs, subscribers |-> users]

\* the call on the next adapter returns Err: the `?` leaves the loop
UpstreamErr ==
    /\ op.pc = "upstream"
    /\ op.upstream
    /\ op.result = "pending"
    /\ op.idx <= Len(hub_nodes)
    /\ hub_nodes[op.idx] = "mock"
    /\ op' = [op EXCEPT !.called = Append(@, op.idx), !.failed = @ \cup {op.idx},
                         !.result = "err"]
    /\ channels' = OnUpstreamErr(channels, subscribers).channels
    /\ subscribers' = OnUpstreamErr(channels, subscribers).subscribers
    /\ UNCHANGED <<hub_nodes, ingress, hub_receiver, dispatcher, bus,
                   next_uuid, next_chan, handles, readers, dispatched, reg>>
    /\ UNCHANGED wsvars

\* WebSocketClient::subscribe, given the outcome of the write of the
\* Subscribe envelope: a failed write is logged and Ok(()) is returned
WebSocketClient_subscribe(write) == IF write = "err" THEN "ok" ELSE "ok"

\* WebSocketClient::unsubscribe, given the outcome of the write of the
\* Unsubscribe envelope: a failed write is logged and Ok(()) is returned
WebSocketClient_unsubscribe(write) == IF write = "err" THEN "ok" ELSE "ok"

\* the next adapter is a WebSocket client and its write of the envelope
\* fails (handle_send_ws_message returns Err)
UpstreamWriteFails ==
    /\ op.pc = "upstream"
    /\ op.upstream
    /\ op.result = "pending"
    /\ op.idx <= Len(hub_nodes)
    /\ hub_nodes[op.idx] = "ws"
    /\ LET res == IF op.kind = "register"
                  THEN WebSocketClient_subscribe("err")
                  ELSE WebSocketClient_unsubscribe("err")
       IN  op' = [op EXCEPT !.called = Append(@, op.idx),
                            !.failed = @ \cup {op.idx},
                            !.idx = IF res = "ok" THEN @ + 1 ELSE @,
                            !.result = IF res = "ok" THEN @ ELSE "err"]
    /\ UNCHANGED <<hub_nodes, channels, subscribers, ingress, hub_receiver, dispatcher, bus,
                   next_uuid, next_chan, handles, readers, dispatched, reg>>
    /\ UNCHANGED wsvars

\* an adapter call is in progress (upstream I/O)
UpstreamPending ==
    /\ op.pc = "upstream"
    /\ op.upstream
    /\ op.result = "pending"
    /\ op.idx <= Len(hub_nodes)

\* the call is about to return: an adapter failed, or no adapter is left to call
ReturnReady ==
    /\ op.pc = "upstream"
    /\ \/ op.result = "err"
       \/ ~op.upstream
       \/ op.idx > Len(hub_nodes)

\* register_to_channel / unregister_from_channel return and the lock is
\* released; Ok(receiver.resubscribe()) hands a HubReceiver to the caller
ReturnStep ==
    /\ ReturnReady
    /\ op' = Idle
    /\ handles' = IF op.kind = "register" /\ op.result # "err"
                  THEN [u \in DOMAIN handles \cup {op.user_id} |->
                          IF u = op.user_id THEN op.receiver ELSE handles[u]]
                  ELSE handles
    /\ UNCHANGED <<hub_nodes, channels, subscribers, ingress, hub_receiver, dispatcher, bus,
                   next_uuid, next_chan, readers, dispatched>>
    /\ UNCHANGED wsvars

Return == ReturnStep /\ UNCHANGED reg

\* Return, with the time of the return written to the history reg
ReturnRecorded ==
    /\ ReturnStep
    /\ reg' = IF op.kind = "register" /\ op.result # "err"
              THEN [u \in DOMAIN reg \cup {op.user_id} |->
                      IF u = op.user_id
                      THEN [channel |-> op.channel, regAt |-> Len(ingress),
                            unreg |-> FALSE, unregAt |-> 0]
                      ELSE reg[u]]
              ELSE IF op.kind = "unregister" /\ op.user_id \in DOMAIN reg
                      /\ reg[op.user_id].channel = op.channel
                      /\ ~reg[op.user_id].unreg
              THEN [reg EXCEPT ![op.user_id].unreg = TRUE,
                               ![op.user_id].unregAt = Len(dispatched)]
              ELSE reg

\* an adapter's reader task sends a decoded message on the ingress sender
Publish(channel) ==
    /\ Started
    /\ hub_nodes # <<>>
    /\ Len(ingress) < MaxMsgs
    /\ ingress' = Append(ingress, [channel |-> channel, data |-> Len(ingress) + 1])
    /\ UNCHANGED <<hub_nodes, channels, subscribers, hub_receiver, dispatcher, bus,
                   next_uuid, next_chan, op, handles, readers, dispatched, reg>>
    /\ UNCHANGED wsvars

\* dispatcher: `while let Ok(data) = receiver.recv().await`; a Lagged error
\* ends the loop
DispatcherRecv ==
    /\ dispatcher.pc = "recv"
    /\ hub_receiver < Len(ingress)
    /\ IF Lagged(BufferLen, ingress, hub_receiver)
       THEN /\ dispatcher' = [pc |-> "stopped"]
            /\ hub_receiver' = Len(ingress) - BufferLen
       ELSE /\ dispatcher' = [pc |-> "forward", data |-> ingress[hub_receiver + 1]]
            /\ hub_receiver' = hub_receiver + 1
    /\ UNCHANGED <<hub_nodes, channels, subscribers, ingress, bus, next_uuid, next_chan,
                   op, handles, readers, dispatched, reg>>
    /\ UNCHANGED wsvars

ForwardStopOnMiss(chs, data) ==
    IF data.channel \in DOMAIN chs
    THEN LET b == get_sender(chs, data.channel)
         IN  IF HasReceiver(b)
             THEN [bus |-> [bus EXCEPT ![b] = Append(@, data)], outcome |-> "sent",
                   pc |-> "recv"]
             ELSE [bus |-> bus, outcome |-> "error", pc |-> "recv"]
    ELSE [bus |-> bus, outcome |-> "dropped", pc |-> "stopped"]

ForwardUnordered(chs, data) ==
    IF data.channel \in DOMAIN chs
    THEN LET b == get_sender(chs, data.channel)
         IN  IF HasReceiver(b)
             THEN [bus |-> [bus EXCEPT ![b] = <<data>> \o @], outcome |-> "sent",
                   pc |-> "recv"]
             ELSE [bus |-> bus, outcome |-> "error", pc |-> "recv"]
    ELSE [bus |-> bus, outcome |-> "dropped", pc |-> "recv"]

ForwardToAny(chs, data) ==
    IF DOMAIN chs # {}
    THEN LET b == get_sender(chs, CHOOSE t \in DOMAIN chs : t # data.channel \/ DOMAIN chs = {t})
         IN  IF HasReceiver(b)
             THEN [bus |-> [bus EXCEPT ![b] = Append(@, data)], outcome |-> "sent",
                   pc |-> "recv"]
             ELSE [bus |-> bus, outcome |-> "error", pc |-> "recv"]
    ELSE [bus |-> bus, outcome |-> "dropped", pc |-> "recv"]

\* what the dispatcher does with the message it holds, given the registry:
\* the logs after it, the outcome and where the dispatcher goes next
Forward(chs, data) ==
    IF data.channel \in DOMAIN chs
    THEN LET b == get_sender(chs, data.channel)
         IN  IF HasReceiver(b)
             THEN [bus |-> [bus EXCEPT ![b] = Append(@, data)], outcome |-> "sent",
                   pc |-> "recv"]
             ELSE [bus |-> bus, outcome |-> "error", pc |-> "recv"]
    ELSE [bus |-> bus, outcome |-> "dropped", pc |-> "recv"]

\* dispatcher: channels.lock(), get_sender, sender.send(data); the lock is
\* released at the end of the iteration
DispatcherForward ==
    /\ dispatcher.pc = "forward"
    /\ ~LockedByCaller
    /\ LET f == Forward(channels, dispatcher.data)
       IN  /\ bus' = f.bus
           /\ dispatched' = Append(dispatched, [data |-> dispatcher.data.data,
                                                outcome |-> f.outcome])
           /\ dispatcher' = [pc |-> f.pc]
    /\ UNCHANGED <<hub_nodes, channels, subscribers, ingress, hub_receiver, next_uuid,
                   next_chan, op, handles, readers, reg>>
    /\ UNCHANGED wsvars

\* HubReceiver::receiver(): self.1.resubscribe(); a caller takes one
\* receiver from its HubReceiver, at a time of its choice
receiver(user_id) ==
    /\ user_id \in DOMAIN handles
    /\ user_id \notin DOMAIN readers
    /\ readers' = [u \in DOMAIN readers \cup {user_id} |->
                     IF u = user_id
                     THEN [chan |-> handles[user_id],
                           next |-> TailOf(bus[handles[user_id]]),
                           got |-> <<>>]
                     ELSE readers[u]]
    /\ UNCHANGED <<hub_nodes, channels, subscribers, ingress, hub_receiver, dispatcher, bus,
                   next_uuid, next_chan, op, handles, dispatched, reg>>
    /\ UNCHANGED wsvars

\* recv() on a receiver obtained from receiver(): the next value, or Lagged
\* and a jump to the oldest value the channel still retains
ReaderRecv(user_id) ==
    /\ user_id \in DOMAIN readers
    /\ LET r == readers[user_id]
           log == bus[r.chan]
       IN  /\ r.next < Len(log)
           /\ readers' = [readers EXCEPT ![user_id] =
                  IF Lagged(BufferLen, log, r.next)
                  THEN [r EXCEPT !.next = Len(log) - BufferLen]
                  ELSE [r EXCEPT !.next = @ + 1, !.got = Append(@, log[r.next + 1])]]
    /\ UNCHANGED <<hub_nodes, channels, subscribers, ingress, hub_receiver, dispatcher, bus,
                   next_uuid, next_chan, op, handles, dispatched, reg>>
    /\ UNCHANGED wsvars

getFromOne(nodes, channel_idx) ==
    IF 1 <= channel_idx /\ channel_idx <= Len(nodes) THEN channel_idx ELSE 0

\* Vec::get(channel_idx) on hub_nodes: the position (from 1) of the adapter
\* at the zero-based index, 0 for None
get(nodes, channel_idx) == IF channel_idx < Len(nodes) THEN channel_idx + 1 ELSE 0

\* send_to_channel(message, channel_idx), given the outcome of the adapter's
\* send; op holds the call and what it did
SendStep(message, channel_idx, outcome) ==
    /\ op.pc = "idle"
    /\ LET n == get(hub_nodes, channel_idx)
       IN  op' = [pc |-> "idle", kind |-> "send", channel |-> message.channel,
                  data |-> message.data, idx |-> channel_idx, nodes |-> Len(hub_nodes),
                  called |-> IF n = 0 THEN <<>> ELSE <<n>>,
                  result |-> IF n = 0 THEN "ok" ELSE outcome]
    /\ UNCHANGED <<hub_nodes, channels, subscribers, ingress, hub_receiver, dispatcher, bus,
                   next_uuid, next_chan, handles, readers, dispatched, reg>>

\* send_to_channel on a hub whose adapters are not followed further
send_to_channel(message, channel_idx, outcome) ==
    /\ SendStep(message, channel_idx, outcome)
    /\ UNCHANGED wsvars

\* what an adapter's list_channels may return: Err, or a list of topics
TopicLists == {<<>>, <<"t1">>, <<"t2">>, <<"t1", "t2">>, <<"t1", "t1">>}

ListResponses ==
    {[ok |-> FALSE, list |-> <<>>]} \cup {[ok |-> TRUE, list |-> l] : l \in TopicLists}

\* HashSet::extend(Vec): the set with the elements of the list added
extend(set, list) == set \cup {list[i] : i \in 1..Len(list)}

RECURSIVE ListFromSkipErr(_, _, _)
ListFromSkipErr(responses, i, acc) ==
    IF i > Len(responses)
    THEN [result |-> "ok", channels |-> acc]
    ELSE IF ~responses[i].ok
         THEN ListFromSkipErr(responses, i + 1, acc)
         ELSE ListFromSkipErr(responses, i + 1, extend(acc, responses[i].list))

\* the loop of HubManager::list_channels from adapter i on, with the set
\* collected so far: `?` returns the first Err
RECURSIVE ListFrom(_, _, _)
ListFrom(responses, i, acc) ==
    IF i > Len(responses)
    THEN [result |-> "ok", channels |-> acc]
    ELSE IF ~responses[i].ok
         THEN [result |-> "err", channels |-> {}]
         ELSE ListFrom(responses, i + 1, extend(acc, responses[i].list))

\* HubManager::list_channels, given what each adapter's list_channels returns
list_channels(responses) ==
    /\ op.pc = "idle"
    /\ Len(responses) = Len(hub_nodes)
    /\ LET res == ListFrom(responses, 1, {})
       IN  op' = [pc |-> "idle", kind |-> "list", responses |-> responses,
                  result |-> res.result, channels |-> res.channels]
    /\ UNCHANGED <<hub_nodes, channels, subscribers, ingress, hub_receiver, dispatcher, bus,
                   next_uuid, next_chan, handles, readers, dispatched, reg>>
    /\ UNCHANGED wsvars

(* --------------------------- WebSocketServer --------------------------- *)

\* WsMessage, as the JSON text frames carry it
Subscribe(channel) == [type |-> "Subscribe", channel |-> channel]
Unsubscribe(channel) == [type |-> "Unsubscribe", channel |-> channel]
ListChannelsReq == [type |-> "ListChannelsReq"]
ListChannelsResponse(list) == [type |-> "ListChannelsResponse", list |-> list]
Data(channel, data) == [type |-> "Data", channel |-> channel, data |-> data]

\* WsMessage::from(HubMessage) and HubMessage::new(channel, data)
WsMessage_from(message) == Data(message.channel, message.data)
HubMessage_new(channel, data) == [channel |-> channel, data |-> data]

\* tokio::sync::Mutex::lock by the future w: the guard when the mutex is free,
\* a place at the end of the wait queue otherwise
lock(mu, w) ==
    IF mu.holder = <<>> /\ mu.queue = <<>>
    THEN [mu EXCEPT !.holder = w]
    ELSE [mu EXCEPT !.queue = Append(@, w)]

unlockKeep(mu) == mu

\* drop of the MutexGuard: the permit is handed to the first future in the
\* wait queue, whether or not that future is ever polled again
unlock(mu) ==
    IF mu.queue = <<>>
    THEN [holder |-> <<>>, queue |-> <<>>]
    ELSE [holder |-> Head(mu.queue), queue |-> Tail(mu.queue)]

\* the futures of connection addr that lock channel_map: the handler the
\* reader (broadcast_incoming) runs, and the clean-up after the select
ReaderOf(addr) == <<addr, "reader">>
CleanupOf(addr) == <<addr, "cleanup">>

handle_ws_data_echo(cm, ps, channel_name, data, addr) ==
    LET cm2 == [t \in DOMAIN cm \cup {channel_name} |->
                   IF t \in DOMAIN cm THEN cm[t] ELSE {}]
    IN  [channel_map |-> cm2,
         peers |-> [a \in DOMAIN ps |->
                      IF a \in cm2[channel_name] /\ ps[a].state # "closed"
                      THEN [ps[a] EXCEPT !.tx = Append(@, Data(channel_name, data))]
                      ELSE ps[a]]]

\* handle_ws_data: the topic becomes a key, and the envelope is put on the
\* queue of every subscriber of the topic but the sender (unbounded_send
\* fails, and is ignored, when the receiving end of the queue is gone)
handle_ws_data(cm, ps, channel_name, data, addr) ==
    LET cm2 == [t \in DOMAIN cm \cup {channel_name} |->
                   IF t \in DOMAIN cm THEN cm[t] ELSE {}]
    IN  [channel_map |-> cm2,
         peers |-> [a \in DOMAIN ps |->
                      IF a \in cm2[channel_name] /\ a # addr /\ ps[a].state # "closed"
                      THEN [ps[a] EXCEPT !.tx = Append(@, Data(channel_name, data))]
                      ELSE ps[a]]]

\* handle_ws_subscribe: entry(channel).or_default().insert(addr, tx)
handle_ws_subscribe(cm, ps, channel_name, addr) ==
    [channel_map |-> [t \in DOMAIN cm \cup {channel_name} |->
                        IF t = channel_name
                        THEN (IF t \in DOMAIN cm THEN cm[t] ELSE {}) \cup {addr}
                        ELSE cm[t]],
     peers |-> ps]

handle_ws_unsubscribe_clear(cm, ps, channel_name, addr) ==
    [channel_map |-> IF channel_name \in DOMAIN cm
                     THEN [cm EXCEPT ![channel_name] = {}]
                     ELSE cm,
     peers |-> ps]

\* handle_ws_unsubscribe: the peer is removed from the topic if it is a key
handle_ws_unsubscribe(cm, ps, channel_name, addr) ==
    [channel_map |-> IF channel_name \in DOMAIN cm
                     THEN [cm EXCEPT ![channel_name] = @ \ {addr}]
                     ELSE cm,
     peers |-> ps]

handle_ws_list_channels_all(cm, ps, addr) ==
    [channel_map |-> cm,
     peers |-> [a \in DOMAIN ps |->
                  IF ps[a].state # "closed"
                  THEN [ps[a] EXCEPT !.tx = Append(@, ListChannelsResponse(DOMAIN cm))]
                  ELSE ps[a]]]

\* handle_ws_list_channels: the keys of channel_map go on the queue of the
\* connection that asked
handle_ws_list_channels(cm, ps, addr) ==
    [channel_map |-> cm,
     peers |-> [ps EXCEPT ![addr].tx = Append(@, ListChannelsResponse(DOMAIN cm))]]

\* the match of handle_connection on the envelope received from addr
handle(cm, ps, ws_message, addr) ==
    IF ws_message.type = "Data"
    THEN handle_ws_data(cm, ps, ws_message.channel, ws_message.data, addr)
    ELSE IF ws_message.type = "ListChannelsReq"
    THEN handle_ws_list_channels(cm, ps, addr)
    ELSE IF ws_message.type = "Subscribe"
    THEN handle_ws_subscribe(cm, ps, ws_message.channel, addr)
    ELSE IF ws_message.type = "Unsubscribe"
    THEN handle_ws_unsubscribe(cm, ps, ws_message.channel, addr)
    ELSE [channel_map |-> cm, peers |-> ps]

\* the number of envelopes written to the server and not yet handled, on
\* the connections 1..a
RECURSIVE Written(_, _)
Written(ps, a) == IF a = 0 THEN 0 ELSE Len(ps[a].inbound) + Written(ps, a - 1)

\* a peer writes an envelope on its connection
PeerSend(addr, ws_message) ==
    /\ addr \in DOMAIN peers
    /\ peers[addr].state = "open"
    /\ handled + Written(peers, Len(peers)) < MaxEnvelopes
    /\ peers' = [peers EXCEPT ![addr].inbound = Append(@, ws_message)]
    /\ UNCHANGED <<hub_nodes, channels, subscribers, ingress, hub_receiver, dispatcher, bus,
                   next_uuid, next_chan, op, handles, readers, dispatched, reg>>
    /\ UNCHANGED <<channel_map, sends, handled, map_lock, client>>

\* the reader of the connection has the next envelope and its handler asks
\* for the channel_map mutex
ReaderLock(addr) ==
    /\ addr \in DOMAIN peers
    /\ peers[addr].state = "open"
    /\ peers[addr].inbound # <<>>
    /\ map_lock.holder # ReaderOf(addr)
    /\ \A i \in 1..Len(map_lock.queue) : map_lock.queue[i] # ReaderOf(addr)
    /\ map_lock' = lock(map_lock, ReaderOf(addr))
    /\ UNCHANGED <<hub_nodes, channels, subscribers, ingress, hub_receiver, dispatcher, bus,
                   next_uuid, next_chan, op, handles, readers, dispatched, reg>>
    /\ UNCHANGED <<channel_map, peers, sends, handled, client>>

\* the handler has the mutex: it handles the envelope and drops the guard
ReaderHandle(addr) ==
    /\ addr \in DOMAIN peers
    /\ peers[addr].state = "open"
    /\ map_lock.holder = ReaderOf(addr)
    /\ LET ws_message == Head(peers[addr].inbound)
           taken == [peers EXCEPT ![addr].inbound = Tail(@)]
           res == handle(channel_map, taken, ws_message, addr)
       IN  /\ channel_map' = res.channel_map
           /\ peers' = res.peers
    /\ handled' = handled + 1
    /\ map_lock' = unlock(map_lock)
    /\ UNCHANGED <<hub_nodes, channels, subscribers, ingress, hub_receiver, dispatcher, bus,
                   next_uuid, next_chan, op, handles, readers, dispatched, reg>>
    /\ UNCHANGED <<sends, client>>

\* the handler of the connection's reader waits in the queue of the mutex
ReaderQueued(addr) == \E i \in 1..Len(map_lock.queue) : map_lock.queue[i] = ReaderOf(addr)

\* future::select returns: the reader's stream ended while it waited for
\* the next envelope, or the forwarder finished because its write to the
\* socket failed; the reader future is kept (pin_mut!) and not polled
\* again, and the clean-up asks for the mutex
Disconnect(addr) ==
    /\ addr \in DOMAIN peers
    /\ peers[addr].state = "open"
    /\ map_lock.holder # ReaderOf(addr)
    /\ ReaderQueued(addr) => peers[addr].tx # <<>>
    /\ peers' = [peers EXCEPT ![addr].state = "ended", ![addr].inbound = <<>>]
    /\ map_lock' = lock(map_lock, CleanupOf(addr))
    /\ UNCHANGED <<hub_nodes, channels, subscribers, ingress, hub_receiver, dispatcher, bus,
                   next_uuid, next_chan, op, handles, readers, dispatched, reg>>
    /\ UNCHANGED <<channel_map, sends, handled, client>>

removePrune(cm, addr) ==
    [t \in {k \in DOMAIN cm : cm[k] \ {addr} # {}} |-> cm[t] \ {addr}]

\* the clean-up of handle_connection: the address is removed from every topic
remove(cm, addr) == [t \in DOMAIN cm |-> cm[t] \ {addr}]

\* the clean-up has the mutex; handle_connection returns and its futures
\* and its queue are dropped
Cleanup(addr) ==
    /\ addr \in DOMAIN peers
    /\ peers[addr].state = "ended"
    /\ map_lock.holder = CleanupOf(addr)
    /\ channel_map' = remove(channel_map, addr)
    /\ peers' = [peers EXCEPT ![addr].state = "closed", ![addr].tx = <<>>]
    /\ map_lock' = unlock(map_lock)
    /\ UNCHANGED <<hub_nodes, channels, subscribers, ingress, hub_receiver, dispatcher, bus,
                   next_uuid, next_chan, op, handles, readers, dispatched, reg>>
    /\ UNCHANGED <<sends, handled, client>>

\* the forwarder of the connection writes the next envelope of the queue
\* to the socket
Forwarder(addr) ==
    /\ addr \in DOMAIN peers
    /\ peers[addr].state = "open"
    /\ peers[addr].tx # <<>>
    /\ peers' = [peers EXCEPT ![addr].tx = Tail(@)]
    /\ UNCHANGED <<hub_nodes, channels, subscribers, ingress, hub_receiver, dispatcher, bus,
                   next_uuid, next_chan, op, handles, readers, dispatched, reg>>
    /\ UNCHANGED <<channel_map, sends, handled, map_lock, client>>

(* ------------- the hub's WebSocket clients and their server ------------ *)

\* The adapter at position n of hub_nodes is a WebSocketClient whose
\* connection the server knows by the address n.

\* WebSocketClient::subscribe / unsubscribe called by register_to_hub_channel
\* / unregister_from_hub_channel: the envelope is written to the adapter's
\* connection and Ok(()) is returned
ClientWrite ==
    /\ op.pc = "upstream"
    /\ op.upstream
    /\ op.result = "pending"
    /\ op.idx <= Len(hub_nodes)
    /\ op' = [op EXCEPT !.called = Append(@, op.idx), !.idx = @ + 1]
    /\ peers' = [peers EXCEPT ![op.idx].inbound =
                    Append(@, IF op.kind = "register" THEN Subscribe(op.channel)
                              ELSE Unsubscribe(op.channel))]
    /\ UNCHANGED <<hub_nodes, channels, subscribers, ingress, hub_receiver, dispatcher, bus,
                   next_uuid, next_chan, handles, readers, dispatched, reg>>
    /\ UNCHANGED <<channel_map, sends, handled, map_lock, client>>

\* the subscribers of a topic whose register_to_channel has returned and
\* that have taken their receiver
Listening(channel) ==
    IF channel \in DOMAIN channels
    THEN channels[channel].subscribers \cap DOMAIN handles \cap DOMAIN readers
    ELSE {}

\* send_to_channel(message, channel_idx) on WebSocket clients:
\* WebSocketClient::send writes WsMessage::from(message) to the adapter's
\* connection; sends keeps the call and who was listening when it was made
ClientSend(channel, channel_idx) ==
    /\ Len(sends) < MaxMsgs
    /\ LET message == [channel |-> channel, data |-> Len(sends) + 1]
           n == get(hub_nodes, channel_idx)
       IN  /\ SendStep(message, channel_idx, "ok")
           /\ peers' = IF n = 0 THEN peers
                       ELSE [peers EXCEPT ![n].inbound = Append(@, WsMessage_from(message))]
           /\ sends' = Append(sends, [channel |-> channel, data |-> message.data,
                                      idx |-> channel_idx,
                                      listeners |-> Listening(channel)])
    /\ UNCHANGED <<channel_map, handled, map_lock, client>>

\* the reader task that WebSocketClient::start spawned gets the next
\* envelope the server's forwarder wrote to the connection: a Data envelope
\* is sent on the ingress as HubMessage::new(channel, data), any other is
\* logged and skipped
ClientRead(addr) ==
    /\ Started
    /\ addr \in DOMAIN peers
    /\ peers[addr].state = "open"
    /\ peers[addr].tx # <<>>
    /\ LET ws_message == Head(peers[addr].tx)
       IN  ingress' = IF ws_message.type = "Data"
                      THEN Append(ingress, HubMessage_new(ws_message.channel, ws_message.data))
                      ELSE ingress
    /\ peers' = [peers EXCEPT ![addr].tx = Tail(@)]
    /\ UNCHANGED <<hub_nodes, channels, subscribers, hub_receiver, dispatcher, bus,
                   next_uuid, next_chan, op, handles, readers, dispatched, reg>>
    /\ UNCHANGED <<channel_map, sends, handled, map_lock, client>>

(* ------------------ WebSocket frames seen by a client ------------------ *)

\* WsMessage::to_string: the JSON text of an envelope, as the sequence of
\* its variant name and its fields
WsMessage_to_string(m) ==
    IF m.type = "Data" THEN <<"Data", m.channel, m.data>>
    ELSE IF m.type = "ListChannelsResponse" THEN <<"ListChannelsResponse", m.list>>
    ELSE IF m.type \in {"Subscribe", "Unsubscribe"} THEN <<m.type, m.channel>>
    ELSE <<m.type>>

\* a text that is no JSON of an envelope
Garbage == <<"garbage">>

\* the result of a failed conversion
Invalid == [type |-> "Err"]

\* WsMessage::try_from(text): serde_json::from_str
WsMessage_try_from(text) ==
    IF text[1] = "Data" /\ Len(text) = 3 THEN Data(text[2], text[3])
    ELSE IF text[1] = "ListChannelsResponse" /\ Len(text) = 2 THEN ListChannelsResponse(text[2])
    ELSE IF text[1] = "Subscribe" /\ Len(text) = 2 THEN Subscribe(text[2])
    ELSE IF text[1] = "Unsubscribe" /\ Len(text) = 2 THEN Unsubscribe(text[2])
    ELSE IF text[1] = "ListChannelsReq" /\ Len(text) = 1 THEN ListChannelsReq
    ELSE Invalid

\* tungstenite Message: a Text frame, or a frame of another kind
Text(text) == [kind |-> "Text", text |-> text]
Binary == [kind |-> "Binary", text |-> <<>>]

\* the envelopes a server may write to a client
ServerEnvelopes ==
    {ListChannelsResponse(l) : l \in TopicLists}
        \cup {Data(t, d) : t \in Topics, d \in 1..MaxMsgs}
        \cup {Subscribe("t1"), ListChannelsReq}

\* the frames a client may find on its connection
Frames == {Text(WsMessage_to_string(m)) : m \in ServerEnvelopes} \cup {Text(Garbage), Binary}

\* the sequences of at most n frames
FrameSeqs(n) == UNION {[1..k -> Frames] : k \in 0..n}

\* how a connection goes on after its frames: nothing more arrives, the
\* stream ends, or the read fails
Ends == {"pending", "closed", "err"}

RECURSIVE nextResponse(_, _)
nextResponse(frames, e) ==
    IF frames = <<>> THEN [item |-> e, frame |-> Binary]
    ELSE IF Head(frames).kind = "Text"
            /\ WsMessage_try_from(Head(frames).text).type = "ListChannelsResponse"
    THEN [item |-> "frame", frame |-> Head(frames)]
    ELSE nextResponse(Tail(frames), e)

\* stream.next() on a connection with the frames left and the end e:
\* Some(Ok(frame)), Some(Err(_)), None, or no item at all
next(frames, e) ==
    IF frames # <<>> THEN [item |-> "frame", frame |-> Head(frames)]
    ELSE [item |-> e, frame |-> Binary]

\* the results of WebSocketClient::list_channels
ListOk(list) == [kind |-> "Ok", list |-> list]
ListErr(kind) == [kind |-> kind, list |-> <<>>]

\* handle_send_ws_message_with_response: the request is written, then
\* tokio::select! takes whichever comes first of read.next() and the sleep
\* of TIMEOUT_SECS; elapsed says that the sleep came first
handle_send_ws_message_with_response(write, frames, e, elapsed) ==
    IF write = "err" THEN ListErr("Other")
    ELSE LET resp == next(frames, e)
         IN  IF elapsed \/ resp.item = "pending" THEN ListErr("TimedOut")
             ELSE IF resp.item = "closed" THEN ListErr("UnexpectedEof")
             ELSE IF resp.item = "err" THEN ListErr("Other")
             ELSE IF resp.frame.kind # "Text" THEN ListErr("InvalidData")
             ELSE LET ws_message == WsMessage_try_from(resp.frame.text)
                  IN  IF ws_message.type = "ListChannelsResponse"
                      THEN ListOk(ws_message.list)
                      ELSE ListErr("InvalidData")

\* WebSocketClient::list_channels: a connection is opened for the call
\* (connect_async), the request is written on it and the answer awaited
WebSocketClient_list_channels(connect, write, frames, e, elapsed) ==
    /\ op = Idle
    /\ op' = [pc |-> "done", kind |-> "ws_list", connect |-> connect, write |-> write,
              frames |-> frames, end |-> e, elapsed |-> elapsed,
              result |-> IF connect = "err" THEN ListErr("Other")
                         ELSE handle_send_ws_message_with_response(write, frames, e, elapsed)]
    /\ UNCHANGED <<hub_nodes, channels, subscribers, ingress, hub_receiver, dispatcher, bus,
                   next_uuid, next_chan, handles, readers, dispatched, reg>>
    /\ UNCHANGED wsvars

\* what stream.next() yields beside frames: Some(Err(_)) and None
ReadErr == [kind |-> "Err", text |-> <<>>]
ReadEnd == [kind |-> "Closed", text |-> <<>>]

\* the items a client's reader task may get from its connection
Items == Frames \cup {ReadErr, ReadEnd}

\* one more item is ready on the client's connection
Arrive(item) ==
    /\ Len(client.arrived) < MaxFrames
    /\ client' = [client EXCEPT !.arrived = Append(@, item)]
    /\ UNCHANGED <<hub_nodes, channels, subscribers, ingress, hub_receiver, dispatcher, bus,
                   next_uuid, next_chan, op, handles, readers, dispatched, reg>>
    /\ UNCHANGED <<channel_map, peers, sends, handled, map_lock>>

reader_retry(message) == "running"

\* the loop of the reader task after an item: `while let Some(message)`
\* ends on None, and Err(e) breaks
reader_after(message) == IF message.kind \in {"Err", "Closed"} THEN "ended" ELSE "running"

\* the messages WebSocketClient::start's reader sends on the ingress for an
\* item: HubMessage::new(channel, data) for the text of a Data envelope
republished(message) ==
    IF message.kind = "Text"
    THEN LET ws_message == WsMessage_try_from(message.text)
         IN  IF ws_message.type = "Data"
             THEN <<HubMessage_new(ws_message.channel, ws_message.data)>>
             ELSE <<>>
    ELSE <<>>

\* one iteration of the reader task spawned by WebSocketClient::start
WsReader ==
    /\ client.reader = "running"
    /\ client.read < Len(client.arrived)
    /\ LET message == client.arrived[client.read + 1]
       IN  /\ ingress' = ingress \o republished(message)
           /\ client' = [client EXCEPT !.read = @ + 1, !.reader = reader_after(message)]
    /\ UNCHANGED <<hub_nodes, channels, subscribers, hub_receiver, dispatcher, bus,
                   next_uuid, next_chan, op, handles, readers, dispatched, reg>>
    /\ UNCHANGED <<channel_map, peers, sends, handled, map_lock>>

(* ------------------ the locks of the WebSocket clients ----------------- *)
\* client[i] is the WebSocket client attached as adapter i: its two mutexes
\* ws_write and ws_read, the mutex its start wraps the ingress sender in,
\* the position of its reader task, and the position of a send call made
\* on a clone of it (WebSocketClient is Clone)

\* the futures that take the locks
Caller == <<0, "caller">>
Dispatcher == <<0, "dispatcher">>
SendOn(i) == <<i, "send">>
WsReaderOf(i) == <<i, "reader">>

\* the future w waits in the queue of the mutex
Queued(mu, w) == \E k \in 1..Len(mu.queue) : mu.queue[k] = w

\* WebSocketClient::subscribe / unsubscribe called by
\* register_to_hub_channel / unregister_from_hub_channel on the next
\* adapter: `self.ws_write.lock().await`
WsCallLock ==
    /\ UpstreamPending
    /\ client[op.idx].ws_write.holder # Caller
    /\ ~Queued(client[op.idx].ws_write, Caller)
    /\ client' = [client EXCEPT ![op.idx].ws_write = lock(@, Caller)]
    /\ UNCHANGED <<hub_nodes, channels, subscribers, ingress, hub_receiver, dispatcher, bus,
                   next_uuid, next_chan, op, handles, readers, dispatched, reg>>
    /\ UNCHANGED <<channel_map, peers, sends, handled, map_lock>>

\* WebSocketClient::subscribe / unsubscribe with the guard:
\* handle_send_ws_message writes or fails, Ok(()) is returned either way and
\* the guard is dropped
WsCallWrite(write) ==
    /\ UpstreamPending
    /\ client[op.idx].ws_write.holder = Caller
    /\ LET res == IF op.kind = "register"
                  THEN WebSocketClient_subscribe(write)
                  ELSE WebSocketClient_unsubscribe(write)
       IN  op' = [op EXCEPT !.called = Append(@, op.idx),
                            !.failed = IF write = "err" THEN @ \cup {op.idx} ELSE @,
                            !.idx = IF res = "ok" THEN @ + 1 ELSE @,
                            !.result = IF res = "ok" THEN @ ELSE "err"]
    /\ client' = [client EXCEPT ![op.idx].ws_write = unlock(@)]
    /\ UNCHANGED <<hub_nodes, channels, subscribers, ingress, hub_receiver, dispatcher, bus,
                   next_uuid, next_chan, handles, readers, dispatched, reg>>
    /\ UNCHANGED <<channel_map, peers, sends, handled, map_lock>>

\* WebSocketClient::send: `self.ws_write.lock().await`
WsSendLock(i) ==
    /\ \A j \in DOMAIN client : client[j].send = "idle"
    /\ client' = [client EXCEPT ![i].ws_write = lock(@, SendOn(i)), ![i].send = "write"]
    /\ UNCHANGED <<hub_nodes, channels, subscribers, ingress, hub_receiver, dispatcher, bus,
                   next_uuid, next_chan, op, handles, readers, dispatched, reg>>
    /\ UNCHANGED <<channel_map, peers, sends, handled, map_lock>>

\* WebSocketClient::send with the guard: handle_send_ws_message, and the
\* guard is dropped on return
WsSendWrite(i) ==
    /\ client[i].send = "write"
    /\ client[i].ws_write.holder = SendOn(i)
    /\ client' = [client EXCEPT ![i].ws_write = unlock(@), ![i].send = "idle"]
    /\ UNCHANGED <<hub_nodes, channels, subscribers, ingress, hub_receiver, dispatcher, bus,
                   next_uuid, next_chan, op, handles, readers, dispatched, reg>>
    /\ UNCHANGED <<channel_map, peers, sends, handled, map_lock>>

\* reader task of WebSocketClient::start: `ws_read.lock().await`
WsReaderLock(i) ==
    /\ client[i].reader = "lock"
    /\ client' = [client EXCEPT ![i].ws_read = lock(@, WsReaderOf(i)), ![i].reader = "next"]
    /\ UNCHANGED <<hub_nodes, channels, subscribers, ingress, hub_receiver, dispatcher, bus,
                   next_uuid, next_chan, op, handles, readers, dispatched, reg>>
    /\ UNCHANGED <<channel_map, peers, sends, handled, map_lock>>

\* reader task, holding the read half: stream.next() gives a Data envelope
\* (of topic t1) and handle_incoming_data asks for the sender: `sender.lock().await`
WsReaderNext(i) ==
    /\ client[i].reader = "next"
    /\ client[i].ws_read.holder = WsReaderOf(i)
    /\ Len(ingress) + Cardinality({j \in DOMAIN client : client[j].reader = "send"}) < MaxFrames
    /\ client' = [client EXCEPT ![i].sender = lock(@, WsReaderOf(i)),
                                ![i].reader = "send"]
    /\ UNCHANGED <<hub_nodes, channels, subscribers, ingress, hub_receiver, dispatcher, bus,
                   next_uuid, next_chan, op, handles, readers, dispatched, reg>>
    /\ UNCHANGED <<channel_map, peers, sends, handled, map_lock>>

\* handle_incoming_data with the guard: the message is sent on the ingress
\* and the guard is dropped
WsReaderSend(i) ==
    /\ client[i].reader = "send"
    /\ client[i].sender.holder = WsReaderOf(i)
    /\ ingress' = Append(ingress, [channel |-> "t1", data |-> Len(ingress) + 1])
    /\ client' = [client EXCEPT ![i].sender = unlock(@), ![i].reader = "next"]
    /\ UNCHANGED <<hub_nodes, channels, subscribers, hub_receiver, dispatcher, bus,
                   next_uuid, next_chan, op, handles, readers, dispatched, reg>>
    /\ UNCHANGED <<channel_map, peers, sends, handled, map_lock>>

\* reader task: stream.next() gives None or an error, the loop ends and the
\* guard of the read half is dropped with the task
WsReaderEnds(i) ==
    /\ client[i].reader = "next"
    /\ client[i].ws_read.holder = WsReaderOf(i)
    /\ client' = [client EXCEPT ![i].ws_read = unlock(@), ![i].reader = "ended"]
    /\ UNCHANGED <<hub_nodes, channels, subscribers, ingress, hub_receiver, dispatcher, bus,
                   next_uuid, next_chan, op, handles, readers, dispatched, reg>>
    /\ UNCHANGED <<channel_map, peers, sends, handled, map_lock>>

(* ------------------------- serial / pipe adapter ---------------------- *)

\* Bytes are one-character strings; a byte string is a sequence of them.
LF == "\n"
CR == "\r"
TAB == "\t"
Sep == <<"#", "#">>

\* char::is_whitespace, char::is_alphanumeric and to_ascii_lowercase on
\* the characters of the model
is_whitespace(c) == c \in {" ", LF, CR, TAB}
is_alphanumeric(c) == c \in {"a", "b", "d", "g", "o", "x", "A", "1", "4", "5", "6"}
to_ascii_lowercase(c) == IF c = "A" THEN "a" ELSE c

\* Iterator::position: the place (from 1) of the first byte b, 0 for None
position(buf, b) ==
    IF \E i \in 1..Len(buf) : buf[i] = b
    THEN CHOOSE i \in 1..Len(buf) : buf[i] = b /\ \A j \in 1..(i - 1) : buf[j] # b
    ELSE 0

starts_with_any(str, pat) == TRUE

\* str::starts_with
starts_with(str, pat) == Len(str) >= Len(pat) /\ SubSeq(str, 1, Len(pat)) = pat

\* str::find: the place (from 1) of the first occurrence of pat, 0 for None
find(str, pat) ==
    LET at(i) == i + Len(pat) - 1 <= Len(str) /\ SubSeq(str, i, i + Len(pat) - 1) = pat
    IN  IF \E i \in 1..Len(str) : at(i)
        THEN CHOOSE i \in 1..Len(str) : at(i) /\ \A j \in 1..(i - 1) : ~at(j)
        ELSE 0

\* str::trim_matches(|c| c == ' ' || c == '\n' || c == '\r')
RECURSIVE trim_matches(_)
trim_matches(str) ==
    IF str = <<>> THEN str
    ELSE IF Head(str) \in {" ", LF, CR} THEN trim_matches(Tail(str))
    ELSE IF str[Len(str)] \in {" ", LF, CR} THEN trim_matches(SubSeq(str, 1, Len(str) - 1))
    ELSE str

\* chars().filter(..).collect() and chars().map(..).collect()
RECURSIVE filter_whitespace(_)
filter_whitespace(str) ==
    IF str = <<>> THEN <<>>
    ELSE IF is_whitespace(Head(str)) THEN filter_whitespace(Tail(str))
    ELSE <<Head(str)>> \o filter_whitespace(Tail(str))

lowercase(str) == [i \in 1..Len(str) |-> to_ascii_lowercase(str[i])]

\* the result of a conversion into a name: Ok(name) or Err
NameOk(name) == [ok |-> TRUE, name |-> name]
NameErr == [ok |-> FALSE, name |-> <<>>]

\* SerialChannelName::try_from(&str): lowercased, whitespace removed, then
\* every character must be alphanumeric or '_'
SerialChannelName_try_from(value) ==
    LET name == filter_whitespace(lowercase(value))
    IN  IF \A i \in 1..Len(name) : is_alphanumeric(name[i]) \/ name[i] = "_"
        THEN NameOk(name)
        ELSE NameErr

\* str::trim_matches(|c| c.is_whitespace() || c == '\n' || c == '\r')
RECURSIVE trim_whitespace(_)
trim_whitespace(str) ==
    IF str = <<>> THEN str
    ELSE IF is_whitespace(Head(str)) THEN trim_whitespace(Tail(str))
    ELSE IF is_whitespace(str[Len(str)]) THEN trim_whitespace(SubSeq(str, 1, Len(str) - 1))
    ELSE str

\* HubChannelName::try_from(&str)
HubChannelName_try_from(value) ==
    LET trimmed == trim_whitespace(value)
        has(c) == \E i \in 1..Len(trimmed) : trimmed[i] = c
    IN  IF has(LF) \/ has(CR) THEN NameErr
        ELSE IF \E i \in 1..Len(trimmed) :
                   ~(is_alphanumeric(trimmed[i]) \/ trimmed[i] = "_"
                       \/ is_whitespace(trimmed[i]))
        THEN NameErr
        ELSE IF has(" ") THEN NameErr
        ELSE NameOk(lowercase(trimmed))

\* HubData::from_str: the payload, trimmed at both ends
HubData_from_str(data) == trim_matches(data)

\* SerialRawMessage::extract_info: Some((channel_name, data)) or None
extract_info(raw_data) ==
    LET start_pos == find(raw_data, Sep)
        rest == SubSeq(raw_data, start_pos + 2, Len(raw_data))
        end == find(rest, Sep)
        channel_name == SerialChannelName_try_from(SubSeq(rest, 1, end - 1))
    IN  IF start_pos # 0 /\ end # 0 /\ channel_name.ok
        THEN [some |-> TRUE, channel_name |-> channel_name.name,
              data |-> trim_matches(SubSeq(rest, end + 2, Len(rest)))]
        ELSE [some |-> FALSE, channel_name |-> <<>>, data |-> <<>>]

\* HubMessage::try_from(SerialRawMessage): the messages it gives, none for Err
HubMessage_try_from(raw) ==
    LET info == extract_info(raw)
    IN  IF info.some
        THEN <<HubMessage_new(HubChannelName_try_from(info.channel_name).name,
                              HubData_from_str(info.data))>>
        ELSE <<>>

\* what the reader does with a line: the messages it sends on the ingress
decode_line(line) == IF starts_with(line, Sep) THEN HubMessage_try_from(line) ELSE <<>>

addNone(set, channel_name) == set

\* SerialPubChannels::add
add_channel(set, channel_name) == set \cup {channel_name}

RECURSIVE learn(_, _)
learn(set, messages) ==
    IF messages = <<>> THEN set
    ELSE learn(add_channel(set, SerialChannelName_try_from(Head(messages).channel).name),
               Tail(messages))

drainAll(line_buffer, pos) == <<>>

\* line_buffer.drain(0..=pos), pos counted from 1
drain(line_buffer, pos) == SubSeq(line_buffer, pos + 1, Len(line_buffer))

\* the while loop of SerialClient::start on the buffer: every complete
\* line is decoded and drained; what is left, sent and learned
RECURSIVE lines_loop(_, _, _)
lines_loop(line_buffer, sent, learned) ==
    LET pos == position(line_buffer, LF)
    IN  IF pos = 0
        THEN [line_buffer |-> line_buffer, sent |-> sent, learned |-> learned]
        ELSE LET messages == decode_line(SubSeq(line_buffer, 1, pos))
             IN  lines_loop(drain(line_buffer, pos), sent \o messages,
                            learn(learned, messages))

\* one iteration of the reader task of SerialClient::start: read returns
\* n > 0 bytes, which are appended to the buffer, and the lines are decoded
SerialRead(n) ==
    /\ client.reader = "running"
    /\ n >= 1
    /\ n <= BUFFER_SIZE
    /\ client.read + n <= Len(client.stream)
    /\ LET got == SubSeq(client.stream, client.read + 1, client.read + n)
           res == lines_loop(client.line_buffer \o got, <<>>, client.serial_channels)
       IN  /\ ingress' = ingress \o res.sent
           /\ client' = [client EXCEPT !.read = @ + n, !.reads = IF @ < MaxReads THEN @ + 1 ELSE @,
                                       !.line_buffer = res.line_buffer,
                                       !.serial_channels = res.learned]
    /\ UNCHANGED <<hub_nodes, channels, subscribers, hub_receiver, dispatcher, bus,
                   next_uuid, next_chan, op, handles, readers, dispatched, reg>>
    /\ UNCHANGED <<channel_map, peers, sends, handled, map_lock>>

\* read returns Err(e): the reader task breaks out of its loop
SerialReadFails ==
    /\ client.reader = "running"
    /\ client' = [client EXCEPT !.reader = "ended"]
    /\ UNCHANGED <<hub_nodes, channels, subscribers, ingress, hub_receiver, dispatcher, bus,
                   next_uuid, next_chan, op, handles, readers, dispatched, reg>>
    /\ UNCHANGED <<channel_map, peers, sends, handled, map_lock>>

\* Lines::next_line on a BufReader: the line without its LF and without
\* a CR before it
strip_newline(bytes, pos) ==
    IF pos >= 2 /\ bytes[pos - 1] = CR THEN SubSeq(bytes, 1, pos - 2)
    ELSE SubSeq(bytes, 1, pos - 1)

\* one iteration of the reader task of PipeClient::start on a file that
\* holds the stream: a new BufReader fills its buffer with n bytes of the
\* file, in as many reads as it takes to see an LF or the end of the file;
\* next_line gives the first line, which is decoded; the BufReader is dropped
\* with the bytes it read past that line
PipeNextLine(n) ==
    /\ client.reader = "running"
    /\ n >= 1
    /\ client.read + n <= Len(client.stream)
    /\ LET got == SubSeq(client.stream, client.read + 1, client.read + n)
           pos == position(got, LF)
           line == IF pos = 0 THEN got ELSE strip_newline(got, pos)
           messages == decode_line(line)
       IN  /\ pos = 0 => client.read + n = Len(client.stream)
           /\ ingress' = ingress \o messages
           /\ client' = [client EXCEPT !.read = @ + n,
                                       !.reads = IF @ < MaxReads THEN @ + 1 ELSE @,
                                       !.serial_channels = learn(@, messages)]
    /\ UNCHANGED <<hub_nodes, channels, subscribers, hub_receiver, dispatcher, bus,
                   next_uuid, next_chan, op, handles, readers, dispatched, reg>>
    /\ UNCHANGED <<channel_map, peers, sends, handled, map_lock>>

\* next_line returns Err(e): the reader task of the pipe breaks out of its loop
PipeReadFails ==
    /\ client.reader = "running"
    /\ client' = [client EXCEPT !.reader = "ended"]
    /\ UNCHANGED <<hub_nodes, channels, subscribers, ingress, hub_receiver, dispatcher, bus,
                   next_uuid, next_chan, op, handles, readers, dispatched, reg>>
    /\ UNCHANGED <<channel_map, peers, sends, handled, map_lock>>

\* the characters of the strings given to the name constructors
NameChars == {"a", "A", "_", " ", TAB, LF, "-"}

\* the strings of at most n characters
Names(n) == UNION {[1..k -> NameChars] : k \in 0..n}

\* a caller hands the string op.value to HubChannelName::try_from
TryFromHub ==
    /\ op.pc = "call"
    /\ op.kind = "name"
    /\ op' = [pc |-> "done", kind |-> "hub_name", value |-> op.value,
              result |-> HubChannelName_try_from(op.value)]
    /\ UNCHANGED <<hub_nodes, channels, subscribers, ingress, hub_receiver, dispatcher, bus,
                   next_uuid, next_chan, handles, readers, dispatched, reg>>
    /\ UNCHANGED wsvars

\* a caller hands the string op.value to SerialChannelName::try_from
TryFromSerial ==
    /\ op.pc = "call"
    /\ op.kind = "name"
    /\ op' = [pc |-> "done", kind |-> "serial_name", value |-> op.value,
              result |-> SerialChannelName_try_from(op.value)]
    /\ UNCHANGED <<hub_nodes, channels, subscribers, ingress, hub_receiver, dispatcher, bus,
                   next_uuid, next_chan, handles, readers, dispatched, reg>>
    /\ UNCHANGED wsvars

\* SerialClient::list_channels / PipeClient::list_channels: the learned set
serial_list_channels == {HubChannelName_try_from(c).name : c \in client.serial_channels}

\* serde_json's text of a string without characters to escape
json_string(str) == <<"\"">> \o str \o <<"\"">>

\* HubMessage::to_bytes: serde_json::to_vec of the struct, its fields in
\* the order of declaration; the clock reads 0
to_bytes(message) ==
    <<"{">> \o json_string(<<"c", "h", "a", "n", "n", "e", "l">>) \o <<":">>
        \o json_string(message.channel) \o <<",">>
        \o json_string(<<"t", "i", "m", "e", "s", "t", "a", "m", "p">>) \o <<":", "0", ".", "0", ",">>
        \o json_string(<<"d", "a", "t", "a">>) \o <<":">>
        \o json_string(message.data) \o <<"}">>

\* the messages handed to send
SerialMessages ==
    {HubMessage_new(<<"o", "d">>, <<"4", ",", "5", ",", "6">>),
     HubMessage_new(<<"a">>, <<"x">>)}

\* SerialClient::send / PipeClient::send: the bytes of to_bytes are written
\* on the link, where the reader of the adapter at the other end finds them
SerialSend(message) ==
    /\ Len(sends) < MaxLines
    /\ sends' = Append(sends, message)
    /\ client' = [client EXCEPT !.stream = @ \o to_bytes(message)]
    /\ UNCHANGED <<hub_nodes, channels, subscribers, ingress, hub_receiver, dispatcher, bus,
                   next_uuid, next_chan, op, handles, readers, dispatched, reg>>
    /\ UNCHANGED <<channel_map, peers, handled, map_lock>>

\* the lines a peer may write on the serial link
FrameOd == <<"#", "#", "o", "d", "#", "#", "4", ",", "5", ",", "6", LF>>
FrameA == <<"#", "#", "A", "#", "#", " ", "x", CR, LF>>
GarbageLine == <<"g", "#", "#", "a", "#", "#", "1", LF>>
EmptyTopicLine == <<"#", "#", "#", "#", "x", LF>>
SpaceTopicLine == <<"#", "#", "a", " ", "b", "#", "#", "x", LF>>
BadCharLine == <<"#", "#", "a", "-", "#", "#", "x", LF>>
NoCloseLine == <<"#", "#", "a", LF>>

SampleLines ==
    {FrameOd, FrameA, GarbageLine, EmptyTopicLine, SpaceTopicLine, BadCharLine,
     NoCloseLine}

\* the bytes that may follow the last LF of the stream
SampleTails == {<<>>, <<"#", "#", "o", "d", "#", "#", "4">>}

RECURSIVE concat(_)
concat(seqs) == IF seqs = <<>> THEN <<>> ELSE Head(seqs) \o concat(Tail(seqs))

\* the byte streams of at most n sample lines and a tail
Streams(n) ==
    {concat(ls) \o tail : ls \in UNION {[1..k -> SampleLines] : k \in 0..n},
                          tail \in SampleTails}

\* the caller of an adapter has the result of its call
TakeResult ==
    /\ op.pc = "done"
    /\ op' = Idle
    /\ UNCHANGED <<hub_nodes, channels, subscribers, ingress, hub_receiver, dispatcher, bus,
                   next_uuid, next_chan, handles, readers, dispatched, reg>>
    /\ UNCHANGED wsvars

\* the caller drops the HubReceiver it was given and the receiver it took
\* from it, without calling unregister_from_channel; the time is written to
\* the history reg
drop(user_id) ==
    /\ user_id \in DOMAIN handles
    /\ handles' = [u \in DOMAIN handles \ {user_id} |-> handles[u]]
    /\ readers' = [u \in DOMAIN readers \ {user_id} |-> readers[u]]
    /\ reg' = [u \in DOMAIN reg \cup {user_id} |->
                  IF u = user_id THEN [droppedAt |-> Len(dispatched)] ELSE reg[u]]
    /\ UNCHANGED <<hub_nodes, channels, subscribers, ingress, hub_receiver, dispatcher, bus,
                   next_uuid, next_chan, op, dispatched>>
    /\ UNCHANGED wsvars

\* the serial port behind its RwLock: the reader task of SerialClient::start
\* and a send call both take port.write(); client.port is the lock (its
\* holder and FIFO wait queue), client.reader the position of the reader
\* task, client.send the position of the send call

\* bytes arrive on the port from the device at the other end
PortArrive(line) ==
    /\ Cardinality({i \in DOMAIN client.stream : client.stream[i] = LF}) < MaxLines
    /\ client' = [client EXCEPT !.stream = @ \o line]
    /\ UNCHANGED <<hub_nodes, channels, subscribers, ingress, hub_receiver, dispatcher, bus,
                   next_uuid, next_chan, op, handles, readers, dispatched, reg>>
    /\ UNCHANGED <<channel_map, peers, sends, handled, map_lock>>

\* reader task: `let mut port_write = port.write().await`
PortReaderLock ==
    /\ client.reader = "lock"
    /\ client' = [client EXCEPT !.port = lock(@, <<"reader">>), !.reader = "read"]
    /\ UNCHANGED <<hub_nodes, channels, subscribers, ingress, hub_receiver, dispatcher, bus,
                   next_uuid, next_chan, op, handles, readers, dispatched, reg>>
    /\ UNCHANGED <<channel_map, peers, sends, handled, map_lock>>

\* reader task, holding the guard: `port_write.read(&mut buffer).await`
\* returns Ok(n) with n > 0 once bytes are there; the lines are decoded,
\* then drop(port_write) and the task sleeps
PortReaderRead(n) ==
    /\ client.reader = "read"
    /\ client.port.holder = <<"reader">>
    /\ n >= 1
    /\ n <= BUFFER_SIZE
    /\ client.read + n <= Len(client.stream)
    /\ LET got == SubSeq(client.stream, client.read + 1, client.read + n)
           res == lines_loop(client.line_buffer \o got, <<>>, client.serial_channels)
       IN  /\ ingress' = ingress \o res.sent
           /\ client' = [client EXCEPT !.read = @ + n,
                                       !.line_buffer = res.line_buffer,
                                       !.serial_channels = res.learned,
                                       !.port = unlock(@),
                                       !.reader = "sleep"]
    /\ UNCHANGED <<hub_nodes, channels, subscribers, hub_receiver, dispatcher, bus,
                   next_uuid, next_chan, op, handles, readers, dispatched, reg>>
    /\ UNCHANGED <<channel_map, peers, sends, handled, map_lock>>

\* read returns Ok(0): `continue` drops the guard and the loop starts again
PortReaderReadsNone ==
    /\ client.reader = "read"
    /\ client.port.holder = <<"reader">>
    /\ client' = [client EXCEPT !.port = unlock(@), !.reader = "lock"]
    /\ UNCHANGED <<hub_nodes, channels, subscribers, ingress, hub_receiver, dispatcher, bus,
                   next_uuid, next_chan, op, handles, readers, dispatched, reg>>
    /\ UNCHANGED <<channel_map, peers, sends, handled, map_lock>>

\* read returns Err(e): `break` drops the guard and the task ends
PortReaderFails ==
    /\ client.reader = "read"
    /\ client.port.holder = <<"reader">>
    /\ client' = [client EXCEPT !.port = unlock(@), !.reader = "ended"]
    /\ UNCHANGED <<hub_nodes, channels, subscribers, ingress, hub_receiver, dispatcher, bus,
                   next_uuid, next_chan, op, handles, readers, dispatched, reg>>
    /\ UNCHANGED <<channel_map, peers, sends, handled, map_lock>>

\* reader task: tokio::time::sleep(1 s) is over
PortReaderWake ==
    /\ client.reader = "sleep"
    /\ client' = [client EXCEPT !.reader = "lock"]
    /\ UNCHANGED <<hub_nodes, channels, subscribers, ingress, hub_receiver, dispatcher, bus,
                   next_uuid, next_chan, op, handles, readers, dispatched, reg>>
    /\ UNCHANGED <<channel_map, peers, sends, handled, map_lock>>

\* SerialClient::send: to_bytes, then `self.port.write().await`
PortSendLock(message) ==
    /\ client.send = "idle"
    /\ Len(sends) < MaxMsgs
    /\ client' = [client EXCEPT !.port = lock(@, <<"send">>), !.send = "write",
                                !.message = message]
    /\ UNCHANGED <<hub_nodes, channels, subscribers, ingress, hub_receiver, dispatcher, bus,
                   next_uuid, next_chan, op, handles, readers, dispatched, reg>>
    /\ UNCHANGED <<channel_map, peers, sends, handled, map_lock>>

\* SerialClient::send, holding the guard: write_all, and the guard is
\* dropped on return
PortSendWrite ==
    /\ client.send = "write"
    /\ client.port.holder = <<"send">>
    /\ sends' = Append(sends, client.message)
    /\ client' = [client EXCEPT !.port = unlock(@), !.send = "idle"]
    /\ UNCHANGED <<hub_nodes, channels, subscribers, ingress, hub_receiver, dispatcher, bus,
                   next_uuid, next_chan, op, handles, readers, dispatched, reg>>
    /\ UNCHANGED <<channel_map, peers, handled, map_lock>>

(* --------------------------- specifications ---------------------------- *)

\* The registries and the adapter calls: every register / unregister call,
\* with any arguments, on a hub with any adapters attached
NextReg ==
    \/ \E k \in AdapterKinds : add(k)
    \/ start
    \/ \E t \in Topics : register_to_channel(t)
    \/ \E t \in Topics, u \in AnyUserId : unregister_from_channel(t, u)
    \/ UpstreamOk
    \/ UpstreamErr
    \/ UpstreamWriteFails
    \/ Return

SpecReg == Init /\ [][NextReg]_vars

\* The message flow of a started hub with one WebSocket client attached
\* (the state after new, add(WebSocketClient), start)
InitFlow ==
    /\ hub_nodes = <<"ws">>
    /\ channels = HubChannels_new
    /\ subscribers = HubUsers_new
    /\ ingress = <<>>
    /\ hub_receiver = 0
    /\ dispatcher = [pc |-> "recv"]
    /\ bus = [b \in ChanIds |-> <<>>]
    /\ next_uuid = 0
    /\ next_chan = 0
    /\ op = Idle
    /\ handles = <<>>
    /\ readers = <<>>
    /\ dispatched = <<>>
    /\ reg = <<>>
    /\ channel_map = <<>>
    /\ peers = <<>>
    /\ sends = <<>>
    /\ handled = 0
    /\ map_lock = [holder |-> <<>>, queue |-> <<>>]
    /\ client = <<>>

\* an unregister call of the flow: of a subscriber of the topic, or with the
\* id 0, which stands for every id that is not subscribed to the topic
UnregisterArgs(t, u) ==
    \/ u = 0
    \/ t \in DOMAIN channels /\ u \in channels[t].subscribers

NextFlow ==
    \/ \E t \in Topics : register_to_channel(t)
    \/ \E t \in Topics, u \in AnyUserId :
          UnregisterArgs(t, u) /\ unregister_from_channel(t, u)
    \/ UpstreamOk
    \/ Return
    \/ \E t \in Topics : Publish(t)
    \/ DispatcherRecv
    \/ DispatcherForward
    \/ \E u \in UserIds : receiver(u)
    \/ \E u \in UserIds : ReaderRecv(u)

SpecFlow == InitFlow /\ [][NextFlow]_vars

\* The same flow, with the times at which the calls returned written to the
\* history reg
NextHist ==
    \/ \E t \in Topics : register_to_channel(t)
    \/ \E t \in Topics, u \in AnyUserId :
          UnregisterArgs(t, u) /\ unregister_from_channel(t, u)
    \/ UpstreamOk
    \/ ReturnRecorded
    \/ \E t \in Topics : Publish(t)
    \/ DispatcherRecv
    \/ DispatcherForward
    \/ \E u \in UserIds : receiver(u)
    \/ \E u \in UserIds : ReaderRecv(u)

SpecHist == InitFlow /\ [][NextHist]_vars

\* The flow of a hub whose callers drop their receivers and never unregister
NextDrop ==
    \/ \E t \in Topics : register_to_channel(t)
    \/ UpstreamOk
    \/ Return
    \/ \E t \in Topics : Publish(t)
    \/ DispatcherRecv
    \/ DispatcherForward
    \/ \E u \in UserIds : receiver(u)
    \/ \E u \in UserIds : ReaderRecv(u)
    \/ \E u \in UserIds : drop(u)

SpecDrop == InitFlow /\ [][NextDrop]_vars

\* A burst of messages for one topic with one, slow, subscriber: the state
\* after new, add(WebSocketClient), start, register_to_channel("t1") and
\* receiver() on the HubReceiver it returned
InitLag ==
    /\ hub_nodes = <<"ws">>
    /\ channels = HubChannels_subscribe_user(HubChannels_new, "t1", 1, 1)
    /\ subscribers = HubUsers_subscribe_user(HubUsers_new, "t1", 1, 1)
    /\ ingress = <<>>
    /\ hub_receiver = 0
    /\ dispatcher = [pc |-> "recv"]
    /\ bus = [b \in ChanIds |-> <<>>]
    /\ next_uuid = 1
    /\ next_chan = 1
    /\ op = Idle
    /\ handles = <<1>>
    /\ readers = <<[chan |-> 1, next |-> 0, got |-> <<>>]>>
    /\ dispatched = <<>>
    /\ reg = <<>>
    /\ channel_map = <<>>
    /\ peers = <<>>
    /\ sends = <<>>
    /\ handled = 0
    /\ map_lock = [holder |-> <<>>, queue |-> <<>>]
    /\ client = <<>>

\* an adapter's reader task sends a message of the burst on the ingress
PublishBurst(channel) ==
    /\ Started
    /\ Len(ingress) < MaxBurst
    /\ Len(ingress) - Len(dispatched) < MaxInFlight
    /\ ingress' = Append(ingress, [channel |-> channel, data |-> Len(ingress) + 1])
    /\ UNCHANGED <<hub_nodes, channels, subscribers, hub_receiver, dispatcher, bus,
                   next_uuid, next_chan, op, handles, readers, dispatched, reg>>
    /\ UNCHANGED wsvars

\* an adapter publishes on the ingress, however far behind the dispatcher is
PublishAhead(channel) ==
    /\ Started
    /\ Len(ingress) < MaxBurst
    /\ ingress' = Append(ingress, [channel |-> channel, data |-> Len(ingress) + 1])
    /\ UNCHANGED <<hub_nodes, channels, subscribers, hub_receiver, dispatcher, bus,
                   next_uuid, next_chan, op, handles, readers, dispatched, reg>>
    /\ UNCHANGED wsvars

NextLag ==
    \/ PublishBurst("t1")
    \/ DispatcherRecv
    \/ DispatcherForward
    \/ \E u \in UserIds : ReaderRecv(u)

SpecLag == InitLag /\ [][NextLag]_vars

\* Messages for a topic with a subscriber, published at any pace, and a
\* dispatcher that is scheduled at any pace but not for ever left waiting
NextAhead ==
    \/ PublishAhead("t1")
    \/ DispatcherRecv
    \/ DispatcherForward

SpecAhead ==
    /\ InitLag
    /\ [][NextAhead]_vars
    /\ WF_vars(DispatcherRecv)
    /\ WF_vars(DispatcherForward)

\* The calls that go to the adapters: send_to_channel and list_channels on
\* a hub with any adapters attached
NextCalls ==
    \/ \E k \in AdapterKinds : add(k)
    \/ start
    \/ \E t \in Topics, d \in 1..MaxMsgs, i \in 0..MaxAdapters, o \in {"ok", "err"} :
          send_to_channel([channel |-> t, data |-> d], i, o)
    \/ \E responses \in [1..Len(hub_nodes) -> ListResponses] :
          list_channels(responses)

SpecCalls == Init /\ [][NextCalls]_vars

\* The WebSocket server with MaxPeers connections accepted, whose peers
\* write any envelopes
InitServer ==
    /\ hub_nodes = <<>>
    /\ channels = HubChannels_new
    /\ subscribers = HubUsers_new
    /\ ingress = <<>>
    /\ hub_receiver = 0
    /\ dispatcher = [pc |-> "off"]
    /\ bus = [b \in ChanIds |-> <<>>]
    /\ next_uuid = 0
    /\ next_chan = 0
    /\ op = Idle
    /\ handles = <<>>
    /\ readers = <<>>
    /\ dispatched = <<>>
    /\ reg = <<>>
    /\ channel_map = <<>>
    /\ peers = [a \in PeerAddrs |-> [state |-> "open", inbound |-> <<>>, tx |-> <<>>]]
    /\ sends = <<>>
    /\ handled = 0
    /\ map_lock = [holder |-> <<>>, queue |-> <<>>]
    /\ client = <<>>

\* the envelopes a peer may write
Envelopes ==
    {Subscribe(t) : t \in Topics} \cup {Unsubscribe(t) : t \in Topics}
        \cup {ListChannelsReq} \cup {Data(t, 1) : t \in Topics}

NextServer ==
    \/ \E a \in PeerAddrs, m \in Envelopes : PeerSend(a, m)
    \/ \E a \in PeerAddrs : ReaderLock(a)
    \/ \E a \in PeerAddrs : ReaderHandle(a)
    \/ \E a \in PeerAddrs : Forwarder(a)

SpecServer == InitServer /\ [][NextServer]_vars

\* #[derive(Deserialize)] on the newtype HubChannelName(String): the JSON
\* string becomes the name as it is written, try_from is not called
HubChannelName_deserialize(str) == NameOk(str)

\* the names a peer may write in the JSON text of an envelope
RawNames == {<<"A">>, <<"a">>}

\* WsMessage::try_from(msg_text) on the texts a peer may write
RawEnvelopes ==
    {Subscribe(HubChannelName_deserialize(n).name) : n \in RawNames}
        \cup {Data(HubChannelName_deserialize(n).name, 1) : n \in RawNames}

\* The server with peers that write the JSON text of their envelopes
\* themselves
NextRaw ==
    \/ \E a \in PeerAddrs, m \in RawEnvelopes : PeerSend(a, m)
    \/ \E a \in PeerAddrs : ReaderLock(a)
    \/ \E a \in PeerAddrs : ReaderHandle(a)
    \/ \E a \in PeerAddrs : Forwarder(a)

SpecRaw == InitServer /\ [][NextRaw]_vars

\* The same server, whose connections also end at any time
NextConn ==
    \/ NextServer
    \/ \E a \in PeerAddrs : Disconnect(a)
    \/ \E a \in PeerAddrs : Cleanup(a)

\* The server's handling of envelopes and of connections that end, without
\* the forwarders: what was put on a queue stays on it
NextMap ==
    \/ \E a \in PeerAddrs, m \in Envelopes : PeerSend(a, m)
    \/ \E a \in PeerAddrs : ReaderLock(a)
    \/ \E a \in PeerAddrs : ReaderHandle(a)
    \/ \E a \in PeerAddrs : Disconnect(a)
    \/ \E a \in PeerAddrs : Cleanup(a)

SpecMap == InitServer /\ [][NextMap]_vars

\* the tokio runtime polls every task that was woken: a handler or a
\* clean-up that has the mutex runs, a reader with an envelope asks for it
SpecServerFair ==
    /\ InitServer
    /\ [][NextConn]_vars
    /\ \A a \in PeerAddrs : WF_vars(ReaderLock(a)) /\ WF_vars(ReaderHandle(a)) /\ WF_vars(Cleanup(a))

\* A started hub with two WebSocket clients attached, both connected to
\* the same server (the state of test_wsocket after start)
InitWs ==
    /\ hub_nodes = <<"ws", "ws">>
    /\ channels = HubChannels_new
    /\ subscribers = HubUsers_new
    /\ ingress = <<>>
    /\ hub_receiver = 0
    /\ dispatcher = [pc |-> "recv"]
    /\ bus = [b \in ChanIds |-> <<>>]
    /\ next_uuid = 0
    /\ next_chan = 0
    /\ op = Idle
    /\ handles = <<>>
    /\ readers = <<>>
    /\ dispatched = <<>>
    /\ reg = <<>>
    /\ channel_map = <<>>
    /\ peers = [a \in DOMAIN hub_nodes |-> [state |-> "open", inbound |-> <<>>, tx |-> <<>>]]
    /\ sends = <<>>
    /\ handled = 0
    /\ map_lock = [holder |-> <<>>, queue |-> <<>>]
    /\ client = <<>>

NextWs ==
    \/ \E t \in Topics : register_to_channel(t)
    \/ ClientWrite
    \/ Return
    \/ \E t \in Topics, i \in 0..1 : ClientSend(t, i)
    \/ \E a \in DOMAIN peers : ReaderLock(a)
    \/ \E a \in DOMAIN peers : ReaderHandle(a)
    \/ \E a \in DOMAIN peers : ClientRead(a)
    \/ DispatcherRecv
    \/ DispatcherForward
    \/ \E u \in UserIds : receiver(u)
    \/ \E u \in UserIds : ReaderRecv(u)

SpecWs == InitWs /\ [][NextWs]_vars

\* Calls of list_channels on a WebSocket client, with any connection
NextList ==
    \/ /\ op = Idle
       /\ \E connect \in {"ok", "err"}, write \in {"ok", "err"},
             frames \in FrameSeqs(MaxFrames), e \in Ends, elapsed \in BOOLEAN :
              WebSocketClient_list_channels(connect, write, frames, e, elapsed)
    \/ TakeResult

SpecList == Init /\ [][NextList]_vars

\* The reader task of a WebSocket client attached to a started hub, on a
\* connection that delivers any items
InitWsReader ==
    /\ hub_nodes = <<"ws">>
    /\ channels = HubChannels_new
    /\ subscribers = HubUsers_new
    /\ ingress = <<>>
    /\ hub_receiver = 0
    /\ dispatcher = [pc |-> "recv"]
    /\ bus = [b \in ChanIds |-> <<>>]
    /\ next_uuid = 0
    /\ next_chan = 0
    /\ op = Idle
    /\ handles = <<>>
    /\ readers = <<>>
    /\ dispatched = <<>>
    /\ reg = <<>>
    /\ channel_map = <<>>
    /\ peers = <<>>
    /\ sends = <<>>
    /\ handled = 0
    /\ map_lock = [holder |-> <<>>, queue |-> <<>>]
    /\ client = [reader |-> "running", arrived |-> <<>>, read |-> 0]

NextWsReader ==
    \/ \E item \in Items : Arrive(item)
    \/ WsReader

SpecWsReader == InitWsReader /\ [][NextWsReader]_vars

\* The reader task of a serial adapter attached to a started hub, on a
\* link that carries any stream of sample lines, read in any pieces
InitSerial ==
    /\ hub_nodes = <<"serial">>
    /\ channels = HubChannels_new
    /\ subscribers = HubUsers_new
    /\ ingress = <<>>
    /\ hub_receiver = 0
    /\ dispatcher = [pc |-> "recv"]
    /\ bus = [b \in ChanIds |-> <<>>]
    /\ next_uuid = 0
    /\ next_chan = 0
    /\ op = Idle
    /\ handles = <<>>
    /\ readers = <<>>
    /\ dispatched = <<>>
    /\ reg = <<>>
    /\ channel_map = <<>>
    /\ peers = <<>>
    /\ sends = <<>>
    /\ handled = 0
    /\ map_lock = [holder |-> <<>>, queue |-> <<>>]
    /\ \E stream \in Streams(MaxLines) :
          client = [reader |-> "running", stream |-> stream, read |-> 0, reads |-> 0,
                    line_buffer |-> <<>>, serial_channels |-> {}]

NextSerial ==
    \/ \E n \in 1..(Len(client.stream) - client.read) : SerialRead(n)
    \/ SerialReadFails

SpecSerial == InitSerial /\ [][NextSerial]_vars

\* The name constructors on every string of at most MaxNameLen characters
InitNames ==
    /\ hub_nodes = <<>>
    /\ channels = HubChannels_new
    /\ subscribers = HubUsers_new
    /\ ingress = <<>>
    /\ hub_receiver = 0
    /\ dispatcher = [pc |-> "off"]
    /\ bus = [b \in ChanIds |-> <<>>]
    /\ next_uuid = 0
    /\ next_chan = 0
    /\ \E value \in Names(MaxNameLen) : op = [pc |-> "call", kind |-> "name", value |-> value]
    /\ handles = <<>>
    /\ readers = <<>>
    /\ dispatched = <<>>
    /\ reg = <<>>
    /\ channel_map = <<>>
    /\ peers = <<>>
    /\ sends = <<>>
    /\ handled = 0
    /\ map_lock = [holder |-> <<>>, queue |-> <<>>]
    /\ client = <<>>

NextNames == TryFromHub \/ TryFromSerial

SpecNames == InitNames /\ [][NextNames]_vars

\* Two serial adapters on the two ends of a link: what one sends, the reader
\* of the other reads
InitLink ==
    /\ hub_nodes = <<"serial">>
    /\ channels = HubChannels_new
    /\ subscribers = HubUsers_new
    /\ ingress = <<>>
    /\ hub_receiver = 0
    /\ dispatcher = [pc |-> "recv"]
    /\ bus = [b \in ChanIds |-> <<>>]
    /\ next_uuid = 0
    /\ next_chan = 0
    /\ op = Idle
    /\ handles = <<>>
    /\ readers = <<>>
    /\ dispatched = <<>>
    /\ reg = <<>>
    /\ channel_map = <<>>
    /\ peers = <<>>
    /\ sends = <<>>
    /\ handled = 0
    /\ map_lock = [holder |-> <<>>, queue |-> <<>>]
    /\ client = [reader |-> "running", stream |-> <<>>, read |-> 0, reads |-> 0,
                 line_buffer |-> <<>>, serial_channels |-> {}]

NextLink ==
    \/ \E message \in SerialMessages : SerialSend(message)
    \/ \E n \in 1..(Len(client.stream) - client.read) : SerialRead(n)
    \/ SerialReadFails

SpecLink == InitLink /\ [][NextLink]_vars

\* The reader task of a pipe adapter on a file that holds any stream of
\* sample lines
NextPipe ==
    \/ \E n \in 1..(Len(client.stream) - client.read) : PipeNextLine(n)
    \/ PipeReadFails

SpecPipe == InitSerial /\ [][NextPipe]_vars

\* HubUsers on its own, driven as its unit tests drive it: subscribe_user
\* with a HubReceiver of any user id on any broadcast.  op holds the last call.
UsersSubscribe(channel, user_id, b) ==
    /\ subscribers' = HubUsers_subscribe_user(subscribers, channel, user_id, b)
    /\ op' = [pc |-> "idle", kind |-> "users_subscribe", channel |-> channel,
              user_id |-> user_id,
              had |-> IF user_id \in DOMAIN subscribers
                      THEN DOMAIN subscribers[user_id] ELSE {}]
    /\ UNCHANGED <<hub_nodes, channels, ingress, hub_receiver, dispatcher, bus, next_uuid,
                   next_chan, handles, readers, dispatched, reg>>
    /\ UNCHANGED wsvars

UsersUnsubscribe(channel, user_id) ==
    /\ subscribers' = HubUsers_unsubscribe_user(subscribers, channel, user_id)
    /\ op' = [pc |-> "idle", kind |-> "users_unsubscribe", channel |-> channel,
              user_id |-> user_id,
              had |-> IF user_id \in DOMAIN subscribers
                      THEN DOMAIN subscribers[user_id] ELSE {}]
    /\ UNCHANGED <<hub_nodes, channels, ingress, hub_receiver, dispatcher, bus, next_uuid,
                   next_chan, handles, readers, dispatched, reg>>
    /\ UNCHANGED wsvars

NextUsers ==
    \/ \E t \in Topics, u \in UserIds, b \in ChanIds : UsersSubscribe(t, u, b)
    \/ \E t \in Topics, u \in AnyUserId : UsersUnsubscribe(t, u)

SpecUsers == Init /\ [][NextUsers]_vars

\* A started serial adapter: its reader task and a caller of send share the
\* port; the device writes lines when it chooses to. Every step of the two
\* tasks that can be taken is taken in the end; nothing makes bytes arrive
InitPort ==
    /\ hub_nodes = <<"serial">>
    /\ channels = HubChannels_new
    /\ subscribers = HubUsers_new
    /\ ingress = <<>>
    /\ hub_receiver = 0
    /\ dispatcher = [pc |-> "recv"]
    /\ bus = [b \in ChanIds |-> <<>>]
    /\ next_uuid = 0
    /\ next_chan = 0
    /\ op = Idle
    /\ handles = <<>>
    /\ readers = <<>>
    /\ dispatched = <<>>
    /\ reg = <<>>
    /\ channel_map = <<>>
    /\ peers = <<>>
    /\ sends = <<>>
    /\ handled = 0
    /\ map_lock = [holder |-> <<>>, queue |-> <<>>]
    /\ client = [reader |-> "lock", send |-> "idle", message |-> <<>>,
                 port |-> [holder |-> <<>>, queue |-> <<>>],
                 stream |-> <<>>, read |-> 0,
                 line_buffer |-> <<>>, serial_channels |-> {}]

NextPort ==
    \/ \E line \in {FrameOd, GarbageLine} : PortArrive(line)
    \/ PortReaderLock
    \/ \E n \in 1..(Len(client.stream) - client.read) : PortReaderRead(n)
    \/ PortReaderReadsNone
    \/ PortReaderFails
    \/ PortReaderWake
    \/ \E message \in SerialMessages : PortSendLock(message)
    \/ PortSendWrite

\* the reader holds the guard and bytes it has not read are on the port:
\* PortReaderRead can be taken, and every PortReaderRead step ends this
ReadReady ==
    /\ client.reader = "read"
    /\ client.port.holder = <<"reader">>
    /\ client.read < Len(client.stream)

\* the tasks are scheduled: a lock that is asked for is queued for, a
\* guard that is held is used, a sleep ends, and a read with bytes waiting
\* returns (weak fairness of PortReaderRead, written with ReadReady)
SpecPort ==
    /\ InitPort
    /\ [][NextPort]_vars
    /\ WF_vars(PortReaderLock)
    /\ []<>~ReadReady
    /\ WF_vars(PortReaderWake)
    /\ WF_vars(PortSendWrite)

\* A started hub with two WebSocket clients attached: the caller of
\* register / unregister, the dispatcher, the reader task of each client and
\* a send call on a clone of a client, with every lock they take
InitLocks ==
    /\ hub_nodes = <<"ws", "ws">>
    /\ channels = HubChannels_new
    /\ subscribers = HubUsers_new
    /\ ingress = <<>>
    /\ hub_receiver = 0
    /\ dispatcher = [pc |-> "recv"]
    /\ bus = [b \in ChanIds |-> <<>>]
    /\ next_uuid = 0
    /\ next_chan = 0
    /\ op = Idle
    /\ handles = <<>>
    /\ readers = <<>>
    /\ dispatched = <<>>
    /\ reg = <<>>
    /\ channel_map = <<>>
    /\ peers = <<>>
    /\ sends = <<>>
    /\ handled = 0
    /\ map_lock = [holder |-> <<>>, queue |-> <<>>]
    /\ client = [i \in 1..2 |->
                   [ws_write |-> [holder |-> <<>>, queue |-> <<>>],
                    ws_read |-> [holder |-> <<>>, queue |-> <<>>],
                    sender |-> [holder |-> <<>>, queue |-> <<>>],
                    reader |-> "lock", send |-> "idle"]]

NextLocks ==
    \/ \E channel \in Topics : next_uuid < MaxCalls /\ register_to_channel(channel)
    \/ \E channel \in Topics : \E user_id \in 1..next_uuid :
           unregister_from_channel(channel, user_id)
    \/ WsCallLock
    \/ \E write \in {"ok", "err"} : WsCallWrite(write)
    \/ Return
    \/ \E i \in DOMAIN client : WsSendLock(i)
    \/ \E i \in DOMAIN client : WsSendWrite(i)
    \/ \E i \in DOMAIN client : WsReaderLock(i)
    \/ \E i \in DOMAIN client : WsReaderNext(i)
    \/ \E i \in DOMAIN client : WsReaderSend(i)
    \/ \E i \in DOMAIN client : WsReaderEnds(i)
    \/ DispatcherRecv
    \/ DispatcherForward

SpecLocks == InitLocks /\ [][NextLocks]_vars

(* ------------------------------- claims -------------------------------- *)

\* the adapters of hub_nodes, each once, in the order of attachment
EveryNode == [i \in 1..Len(hub_nodes) |-> i]

\* the position at which the dispatcher forwarded (or dropped) message m
DispatchIndex(m) == CHOOSE k \in 1..Len(dispatched) : dispatched[k].data = m.data

\* C1 as stated: a register that takes the topic's subscriber count from 0
\* to 1 calls subscribe once on every attached adapter, and a register that
\* takes it from n >= 1 to n + 1 calls no adapter.
C1_SubscribeOnEveryNode ==
    (ReturnReady /\ op.kind = "register") =>
        IF op.before = 0 THEN op.called = EveryNode ELSE op.called = <<>>

\* C1 amended: a register that takes the count from 0 to 1 calls subscribe
\* once on each adapter in the order of attachment, up to and including the
\* first adapter whose subscribe fails (on all of them when none fails); a
\* register that takes it from n >= 1 to n + 1 calls no adapter.
C1_SubscribeUntilFailure ==
    (ReturnReady /\ op.kind = "register") =>
        IF op.before = 0
        THEN IF op.result = "err"
             THEN /\ op.called = [i \in 1..op.idx |-> i]
                  /\ op.idx <= Len(hub_nodes)
             ELSE op.called = EveryNode
        ELSE op.called = <<>>

C1_Witness ==
    /\ ReturnReady
    /\ op.kind = "register"
    /\ op.before = 0
    /\ op.result = "err"
    /\ Len(op.called) < Len(hub_nodes)

\* C2: unsubscribe is called on the adapters exactly when the unregister
\* call takes the topic's subscriber count from 1 to 0, and at no other time
\* (not for an id that is not subscribed, not for a topic without entry).
C2_UnsubscribeOnlyOnLastLeave ==
    (ReturnReady /\ op.kind = "unregister" /\ op.result # "err") =>
        IF op.was_in /\ op.before = 1 THEN op.called = EveryNode ELSE op.called = <<>>

\* C3: a topic has an entry in channels exactly when it has a subscriber:
\* no entry has an empty subscriber set.
C3_EntryIffSubscribers ==
    \A t \in Topics :
        /\ t \in DOMAIN channels <=> get_number_subscribers(channels, t) > 0
        /\ t \in DOMAIN channels => channels[t].subscribers # {}

C3_Witness ==
    /\ op.kind = "unregister"
    /\ op.was_in
    /\ op.before = 1
    /\ op.channel \notin DOMAIN channels
    /\ DOMAIN channels # {}

\* C4: a user id has an entry in HubUsers exactly when it has a topic
\* binding; unsubscribing the last topic of a user removes the user, and
\* unsubscribing one of several leaves the user with the other topics.
C4_UserIffBinding ==
    /\ \A u \in DOMAIN subscribers : DOMAIN subscribers[u] # {}
    /\ op.kind = "users_unsubscribe" =>
         LET rest == op.had \ {op.channel}
         IN  IF rest = {}
             THEN op.user_id \notin DOMAIN subscribers
             ELSE /\ op.user_id \in DOMAIN subscribers
                  /\ DOMAIN subscribers[op.user_id] = rest

C4_Witness ==
    /\ op.kind = "users_unsubscribe"
    /\ op.channel \in op.had
    /\ op.had \ {op.channel} # {}
    /\ op.user_id \in DOMAIN subscribers

\* a re-registration of topic t creates a broadcast that is new: nothing was
\* sent on it, no receiver is attached to it and no topic uses it
CreatesNewBroadcast(t) ==
    (t \notin DOMAIN channels /\ t \in DOMAIN channels') =>
        LET b == channels'[t].sender
        IN  /\ bus[b] = <<>>
            /\ ~HasReceiver(b)
            /\ \A t2 \in DOMAIN channels : channels[t2].sender # b

\* a receiver of an earlier registration of a topic has yielded nothing that
\* was dispatched once a later broadcast of the topic existed: all it
\* yielded was dispatched before everything sent on the later broadcasts
OldReceiversGetNothingNew ==
    \A u \in DOMAIN readers : \A b2 \in (readers[u].chan + 1)..next_chan :
        \A i \in 1..Len(readers[u].got) : \A k \in 1..Len(bus[b2]) :
            bus[b2][k].channel = readers[u].got[i].channel
                => DispatchIndex(readers[u].got[i]) < DispatchIndex(bus[b2][k])

\* C5: once the only subscriber of a topic has unregistered the topic has no
\* entry; the next register creates a new broadcast for it, and a receiver
\* of the earlier registration yields no message dispatched after that.
C5_FreshBroadcast ==
    /\ [](/\ (ReturnReady /\ op.kind = "unregister" /\ op.was_in /\ op.before = 1)
                => op.channel \notin DOMAIN channels
          /\ OldReceiversGetNothingNew)
    /\ [][\A t \in Topics : CreatesNewBroadcast(t)]_vars

C5_Witness ==
    \E u \in DOMAIN readers : \E b2 \in (readers[u].chan + 1)..next_chan :
        /\ readers[u].got # <<>>
        /\ bus[b2] # <<>>
        /\ bus[b2][1].channel = readers[u].got[1].channel

\* C6: once unregister_from_channel(T, id) has returned, no receiver taken
\* from id's HubReceiver yields a message dispatched afterwards.
C6_NothingAfterUnregister ==
    \A u \in DOMAIN readers \cap DOMAIN reg :
        reg[u].unreg =>
            \A i \in 1..Len(readers[u].got) :
                DispatchIndex(readers[u].got[i]) <= reg[u].unregAt

\* what a reader yields is in the order of dispatch
InDispatchOrder(got) ==
    \A i, j \in 1..Len(got) : i < j => DispatchIndex(got[i]) < DispatchIndex(got[j])

\* C7: a subscriber receives the messages of its topic in the order in
\* which the dispatcher took them off the ingress, and two subscribers that
\* both receive two messages receive them in the same order.
C7_DispatchOrder ==
    /\ \A u \in DOMAIN readers : InDispatchOrder(readers[u].got)
    /\ \A u, v \in DOMAIN readers :
          \A i, j \in 1..Len(readers[u].got) : \A k, l \in 1..Len(readers[v].got) :
              (/\ i < j
               /\ readers[v].got[k] = readers[u].got[i]
               /\ readers[v].got[l] = readers[u].got[j]) => k < l

C7_Witness ==
    \E u, v \in DOMAIN readers :
        /\ u # v
        /\ Len(readers[u].got) >= 2
        /\ readers[v].got = readers[u].got

\* the messages of topic t published after the first n, in published order
PublishedAfter(t, n) ==
    LET F[k \in 0..Len(ingress)] ==
            IF k = 0 THEN <<>>
            ELSE IF k > n /\ ingress[k].channel = t
                 THEN Append(F[k - 1], ingress[k])
                 ELSE F[k - 1]
    IN  F[Len(ingress)]

\* every published message was dispatched and reader u has read all that
\* was sent on its broadcast
Quiescent(u) ==
    /\ Len(dispatched) = Len(ingress)
    /\ readers[u].next = Len(bus[readers[u].chan])

\* C8: a subscriber that has completed register_to_channel(T) observes,
\* through the receiver it takes from its HubReceiver at any later time,
\* every message published for T after the registration, in published order.
C8_AllObserved ==
    \A u \in DOMAIN readers \cap DOMAIN reg :
        (~reg[u].unreg /\ Quiescent(u) /\ op.pc = "idle")
            => readers[u].got = PublishedAfter(reg[u].channel, reg[u].regAt)

\* C9: a message whose topic has no entry when the dispatcher looks it up is
\* dropped: nothing is sent on any broadcast, no reader's state and neither
\* registry changes, and the dispatcher is back at receiving from the ingress.
C9_DropWithoutEntry ==
    [][(/\ dispatcher.pc = "forward"
        /\ dispatcher' # dispatcher
        /\ dispatcher.data.channel \notin DOMAIN channels)
       => (/\ bus' = bus
           /\ readers' = readers
           /\ channels' = channels
           /\ subscribers' = subscribers
           /\ hub_receiver' = hub_receiver
           /\ dispatcher'.pc = "recv")]_vars

C9_Witness ==
    \E i, j \in 1..Len(dispatched) :
        /\ i < j
        /\ dispatched[i].outcome = "dropped"
        /\ dispatched[j].outcome = "sent"

\* C10: when an adapter call fails, the registries are exactly as the call
\* mutated them before calling the adapters: the subscriber of a failed
\* register is still subscribed, that of a failed unregister is still removed.
C10_NoRollback ==
    (op.pc = "upstream" /\ op.result = "err") =>
        /\ channels = op.snap.channels
        /\ subscribers = op.snap.subscribers
        /\ op.kind = "register" =>
              /\ op.channel \in DOMAIN channels
              /\ op.user_id \in channels[op.channel].subscribers
              /\ op.user_id \in DOMAIN subscribers
              /\ op.channel \in DOMAIN subscribers[op.user_id]
        /\ op.kind = "unregister" =>
              /\ op.channel \notin DOMAIN channels
              /\ op.user_id \in DOMAIN subscribers
                    => op.channel \notin DOMAIN subscribers[op.user_id]

C10_Witness ==
    /\ op.pc = "upstream"
    /\ op.result = "err"
    /\ op.kind = "register"
    /\ op.before = 0

\* C11: whenever the send of the Subscribe / Unsubscribe request fails for an
\* adapter, WebSocket clients included, the register / unregister call
\* returns an error to its caller.
C11_FailureReturned ==
    (ReturnReady /\ op.kind \in {"register", "unregister"} /\ op.failed # {})
        => op.result = "err"

\* C12: the channels mutex is not held while an adapter call is in
\* progress, so the dispatcher can forward the message it holds meanwhile.
C12_NoIoUnderLock ==
    UpstreamPending =>
        /\ ~LockedByCaller
        /\ dispatcher.pc = "forward" => ENABLED DispatcherForward

\* the dispatcher forwards (or drops) the message it holds, the topic of the
\* message has an entry, and no caller holds a receiver on its broadcast
ForwardsWithoutCallerReceiver ==
    /\ dispatcher.pc = "forward"
    /\ dispatcher' # dispatcher
    /\ dispatcher.data.channel \in DOMAIN channels
    /\ ~HasReceiverCallerOnly(get_sender(channels, dispatcher.data.channel))

\* C13 as stated: after the caller dropped every receiver it holds for T
\* without unregistering, the dispatcher's next send for T fails with a send
\* error (nothing is sent), and the dispatcher keeps running.
C13_SendErrorAfterDrop ==
    [][ForwardsWithoutCallerReceiver
       => (/\ bus' = bus
           /\ dispatched'[Len(dispatched')].outcome = "error"
           /\ dispatcher'.pc = "recv")]_vars

\* C13 amended: after the caller dropped every receiver it holds for T
\* without unregistering, the dispatcher's next send for T succeeds (HubUsers
\* still holds a receiver on T's broadcast): the message is appended to the
\* broadcast, no send error is observed, and the dispatcher keeps running.
C13_SendSucceedsAfterDrop ==
    [][ForwardsWithoutCallerReceiver
       => (LET b == get_sender(channels, dispatcher.data.channel)
           IN  /\ bus' = [bus EXCEPT ![b] = Append(@, dispatcher.data)]
               /\ dispatched'[Len(dispatched')].outcome = "sent"
               /\ dispatcher'.pc = "recv")]_vars

C13_Witness ==
    \E t \in DOMAIN channels : \E k \in 1..Len(dispatched) :
        /\ ingress[dispatched[k].data].channel = t
        /\ dispatched[k].outcome = "sent"
        /\ \A u \in channels[t].subscribers :
              u \in DOMAIN reg /\ reg[u].droppedAt < k

\* how far reader u is behind what was sent on its broadcast
Behind(u) == Len(bus[readers[u].chan]) - readers[u].next

\* reader u takes a step (a recv returns)
Receives(u) ==
    /\ u \in DOMAIN readers
    /\ u \in DOMAIN readers'
    /\ readers'[u] # readers[u]

\* the dispatcher's send never waits for a subscriber: whenever it holds a
\* message and no register / unregister call holds the lock, it can forward
PublishNeverWaits ==
    (dispatcher.pc = "forward" /\ ~LockedByCaller) => ENABLED DispatcherForward

\* C14 as stated: a subscriber more than 100 messages behind gets Lagged on
\* its next receive (no message is yielded) and resumes at the newest
\* message: the receive after that yields the newest one; the dispatcher's
\* publish never waits for it.
C14_LaggedResumesAtNewest ==
    /\ []PublishNeverWaits
    /\ [][\A u \in UserIds : Receives(u) =>
             IF Behind(u) > CHANNEL_CAPACITY
             THEN /\ readers'[u].got = readers[u].got
                  /\ readers'[u].next = Len(bus[readers[u].chan]) - 1
             ELSE readers'[u].got =
                      Append(readers[u].got, bus[readers[u].chan][readers[u].next + 1])]_vars

\* C14 amended: a subscriber more than the retained length behind (128: the
\* capacity 100 rounded up to a power of two) gets Lagged on its next
\* receive (no message is yielded) and resumes at the oldest message still
\* retained, skipping only the overwritten ones; a subscriber that is at
\* most that far behind gets the next message; the dispatcher's publish
\* never waits for it.
C14_LaggedResumesAtOldest ==
    /\ []PublishNeverWaits
    /\ [][\A u \in UserIds : Receives(u) =>
             IF Behind(u) > BufferLen
             THEN /\ readers'[u].got = readers[u].got
                  /\ readers'[u].next = Len(bus[readers[u].chan]) - BufferLen
             ELSE /\ readers'[u].got =
                      Append(readers[u].got, bus[readers[u].chan][readers[u].next + 1])
                  /\ readers'[u].next = readers[u].next + 1]_vars

C14_Witness ==
    \E u \in DOMAIN readers :
        /\ readers[u].got # <<>>
        /\ readers[u].got[1].data > 1
        /\ readers[u].next = Len(readers[u].got) + readers[u].got[1].data - 1

\* C15: send_to_channel(message, i) calls send once on the adapter that was
\* the (i+1)-th to be attached and on no other; when i is not smaller than
\* the number of attached adapters it calls none and returns Ok.
C15_SendToIndexedAdapter ==
    op.kind = "send" =>
        IF op.idx < op.nodes
        THEN op.called = <<op.idx + 1>>
        ELSE op.called = <<>> /\ op.result = "ok"

C15_Witness ==
    /\ op.kind = "send"
    /\ op.idx = 1
    /\ op.nodes = 2
    /\ op.called = <<2>>

\* C16: list_channels returns the union of the lists of all the adapters,
\* duplicates collapsed, and an error with no partial result when the
\* list_channels of an adapter fails.
C16_ListIsUnion ==
    op.kind = "list" =>
        IF \E i \in 1..Len(op.responses) : ~op.responses[i].ok
        THEN op.result = "err" /\ op.channels = {}
        ELSE /\ op.result = "ok"
             /\ op.channels =
                   {t \in Topics : \E i \in 1..Len(op.responses) :
                       \E j \in 1..Len(op.responses[i].list) : op.responses[i].list[j] = t}

C16_Witness ==
    /\ op.kind = "list"
    /\ Len(op.responses) = 2
    /\ op.responses[1].ok
    /\ op.responses[1].list = <<"t1", "t1">>
    /\ op.responses[2].ok
    /\ op.responses[2].list = <<"t1", "t2">>
    /\ op.channels = {"t1", "t2"}

\* the step in which the server handles the envelope at the head of the
\* connection of addr
Handles(addr) == map_lock.holder = ReaderOf(addr) /\ handled' = handled + 1

SubscribedTo(channel) == IF channel \in DOMAIN channel_map THEN channel_map[channel] ELSE {}

Absent(addr) == \A t \in DOMAIN channel_map : addr \notin channel_map[t]

\* C19: after the connection of a peer ended the peer is eventually
\* removed from the subscribers of every topic, and from its removal on it
\* is absent from every topic
C19_EventuallyAbsent ==
    /\ \A a \in PeerAddrs : (peers[a].state = "ended") ~> (peers[a].state = "closed")
    /\ [](\A a \in PeerAddrs : peers[a].state = "closed" => Absent(a))

\* C20: a ListChannelsReq is answered with one ListChannelsResponse on the
\* queue of the connection that asked and on no other, with the keys of
\* channel_map at that moment; there is no key before the first envelope, a
\* topic becomes a key when a Subscribe or a Data that names it is
\* handled, and by no other step
C20_ListIsKeySet ==
    /\ [](handled = 0 => DOMAIN channel_map = {})
    /\ [][\A a \in PeerAddrs :
             /\ (Handles(a) /\ Head(peers[a].inbound).type = "ListChannelsReq") =>
                    /\ channel_map' = channel_map
                    /\ \A b \in PeerAddrs :
                           peers'[b].tx = IF b = a
                                          THEN Append(peers[b].tx, ListChannelsResponse(DOMAIN channel_map))
                                          ELSE peers[b].tx
             /\ (Handles(a) /\ Head(peers[a].inbound).type \in {"Subscribe", "Data"}) =>
                    Head(peers[a].inbound).channel \in DOMAIN channel_map']_vars
    /\ [][\A t \in Topics :
             (t \notin DOMAIN channel_map /\ t \in DOMAIN channel_map') =>
                 \E a \in PeerAddrs :
                     /\ Handles(a)
                     /\ Head(peers[a].inbound).type \in {"Subscribe", "Data"}
                     /\ Head(peers[a].inbound).channel = t]_vars

\* C20 witness: a Data envelope for a topic nobody subscribed to was
\* handled, and the list that answered the next request holds that topic only
C20_Witness ==
    \E a \in PeerAddrs :
        /\ DOMAIN channel_map = {"t1"}
        /\ channel_map["t1"] = {}
        /\ handled = 2
        /\ peers[a].tx = <<ListChannelsResponse({"t1"})>>

\* nothing is in flight between the hub, its clients and the server, and
\* every receiver has read all that was sent on its broadcast
WsQuiescent ==
    /\ op.pc = "idle"
    /\ map_lock.holder = <<>>
    /\ \A a \in DOMAIN peers : peers[a].inbound = <<>> /\ peers[a].tx = <<>>
    /\ dispatcher.pc = "recv"
    /\ hub_receiver = Len(ingress)
    /\ \A u \in DOMAIN readers : readers[u].next = Len(bus[readers[u].chan])

\* the positions of got that hold the message of a send
Copies(got, send) ==
    {i \in 1..Len(got) : got[i] = [channel |-> send.channel, data |-> send.data]}

\* C17: with two WebSocket clients attached to the hub and connected to
\* the same server, a message for T given to send_to_channel(msg, 0) after
\* register_to_channel(T) returned reaches the subscriber of T exactly
\* once, with the topic and the payload it was sent with
C17_DeliveredOnce ==
    WsQuiescent =>
        \A k \in 1..Len(sends) :
            sends[k].idx = 0 =>
                \A u \in sends[k].listeners :
                    Cardinality(Copies(readers[u].got, sends[k])) = 1

\* the ListChannelsResponse envelopes on the queue of a connection
Responses(addr) ==
    {peers[addr].tx[i].list : i \in {j \in 1..Len(peers[addr].tx) :
                                       peers[addr].tx[j].type = "ListChannelsResponse"}}

\* C21: the key set of channel_map only grows (no Unsubscribe, Data or
\* disconnect removes a key), and a ListChannelsReq is answered with every
\* key, those whose subscriber map is empty included
C21_KeysOnlyGrow ==
    /\ [][DOMAIN channel_map \subseteq DOMAIN channel_map']_vars
    /\ [][\A a \in PeerAddrs :
             (Handles(a) /\ Head(peers[a].inbound).type = "ListChannelsReq") =>
                 \A t \in DOMAIN channel_map :
                     t \in peers'[a].tx[Len(peers'[a].tx)].list]_vars

\* C21 witness: the only subscriber of a topic disconnected and was removed,
\* and the answer to a later ListChannelsReq of another peer holds the topic
C21_Witness ==
    \E a, b \in PeerAddrs :
        /\ a # b
        /\ peers[a].state = "closed"
        /\ DOMAIN channel_map = {"t1"}
        /\ channel_map["t1"] = {}
        /\ handled = 2
        /\ Responses(b) = {{"t1"}}

\* the queues of all connections are as they were
QueuesUnchanged == \A b \in PeerAddrs : peers'[b].tx = peers[b].tx

\* C22: Subscribe(T) from peer A changes only A's membership in T, however
\* many times A subscribes; Unsubscribe(T) from A removes only A from T,
\* leaves every other membership and topic as it was, and creates no entry
\* for T when there is none
C22_MembershipFrame ==
    [][\A a \in PeerAddrs :
          LET m == Head(peers[a].inbound)
          IN  /\ (Handles(a) /\ m.type = "Subscribe") =>
                     /\ DOMAIN channel_map' = DOMAIN channel_map \cup {m.channel}
                     /\ channel_map'[m.channel] = SubscribedTo(m.channel) \cup {a}
                     /\ \A t \in DOMAIN channel_map \ {m.channel} :
                            channel_map'[t] = channel_map[t]
                     /\ QueuesUnchanged
              /\ (Handles(a) /\ m.type = "Unsubscribe") =>
                     /\ DOMAIN channel_map' = DOMAIN channel_map
                     /\ \A t \in DOMAIN channel_map :
                            channel_map'[t] = IF t = m.channel THEN channel_map[t] \ {a}
                                              ELSE channel_map[t]
                     /\ QueuesUnchanged]_vars

\* C22 witness: a peer that received a Data envelope as a subscriber of a
\* topic has unsubscribed from it; the other topic has no entry
C22_Witness ==
    \E a, b \in PeerAddrs :
        /\ a # b
        /\ handled = 3
        /\ peers[b].tx = <<Data("t1", 1)>>
        /\ channel_map = [t \in {"t1"} |-> {}]

\* the frame is the text of a ListChannelsResponse
IsResponse(frame) ==
    /\ frame.kind = "Text"
    /\ \E l \in TopicLists : frame.text = <<"ListChannelsResponse", l>>

\* a call of WebSocketClient::list_channels was made, on a connection that
\* was opened and on which the request was written
Listed == op.kind = "ws_list" /\ op.connect = "ok" /\ op.write = "ok"

\* what the call found on its connection
ListCases ==
    /\ op.result.kind = "Ok" <=>
           (~op.elapsed /\ op.frames # <<>> /\ IsResponse(op.frames[1]))
    /\ op.result.kind = "Ok" => op.result.list = op.frames[1].text[2]
    /\ op.result.kind = "TimedOut" <=>
           (op.elapsed \/ (op.frames = <<>> /\ op.end = "pending"))
    /\ op.result.kind = "InvalidData" <=>
           (~op.elapsed /\ op.frames # <<>> /\ ~IsResponse(op.frames[1]))
    /\ op.result.kind = "UnexpectedEof" <=>
           (~op.elapsed /\ op.frames = <<>> /\ op.end = "closed")

\* C23: list_channels of the WebSocket client returns the list of the
\* ListChannelsResponse that is the first frame on its connection, fails
\* with TimedOut if no frame arrives in time, with InvalidData if the first
\* frame is no ListChannelsResponse, with UnexpectedEof if the connection
\* closes first, and every call has one of these four outcomes
C23_FourOutcomes ==
    op.kind = "ws_list" =>
        /\ op.result.kind \in {"Ok", "TimedOut", "InvalidData", "UnexpectedEof"}
        /\ Listed => ListCases

\* C23 amended: a call has one of five outcomes: the four above on a
\* connection that was opened and written to without a read error, and the
\* error Other when the connection cannot be opened, the request cannot be
\* written, or the read fails before a frame arrived
C23_FiveOutcomes ==
    op.kind = "ws_list" =>
        /\ op.result.kind \in {"Ok", "TimedOut", "InvalidData", "UnexpectedEof", "Other"}
        /\ Listed => ListCases
        /\ op.result.kind = "Other" <=>
               \/ ~Listed
               \/ ~op.elapsed /\ op.frames = <<>> /\ op.end = "err"

\* C23 witness: the read of the answer failed on a connection that was
\* opened and written to, and the call returned the error Other
C23_Witness ==
    /\ Listed
    /\ op.frames = <<>>
    /\ op.end = "err"
    /\ ~op.elapsed
    /\ op.result.kind = "Other"

\* the item is the text of a Data envelope
IsData(item) ==
    /\ item.kind = "Text"
    /\ Len(item.text) = 3
    /\ item.text[1] = "Data"

\* one message per Data envelope among the items, in their order, up to
\* the first read error or the end of the stream
RECURSIVE Published(_)
Published(items) ==
    IF items = <<>> THEN <<>>
    ELSE IF Head(items).kind \in {"Err", "Closed"} THEN <<>>
    ELSE IF IsData(Head(items))
    THEN <<[channel |-> Head(items).text[2], data |-> Head(items).text[3]]>>
             \o Published(Tail(items))
    ELSE Published(Tail(items))

\* C24: the reader task of the WebSocket client publishes to the ingress
\* one message per inbound Data envelope, in arrival order, nothing for
\* another envelope, a text that does not decode or a frame that is no
\* text, and nothing more after the first read error
C24_ReaderRepublishesData ==
    /\ ingress = Published(SubSeq(client.arrived, 1, client.read))
    /\ (client.reader = "ended" \/ client.read = Len(client.arrived))
           => ingress = Published(client.arrived)

\* C24 witness: a read error was followed by a Data envelope, which the
\* reader, ended by the error, never published
C24_Witness ==
    /\ Len(client.arrived) = 2
    /\ client.arrived[1] = ReadErr
    /\ IsData(client.arrived[2])
    /\ client.reader = "ended"
    /\ ingress = <<>>

\* the bytes of a stream that follow its last LF
RECURSIVE after_last_LF(_)
after_last_LF(bytes) ==
    IF position(bytes, LF) = 0 THEN bytes
    ELSE after_last_LF(SubSeq(bytes, position(bytes, LF) + 1, Len(bytes)))

\* the bytes the reader of the serial adapter has taken from the link
Consumed == SubSeq(client.stream, 1, client.read)

\* C25: however the stream is split into reads, the serial decoder has sent
\* the messages, and keeps the buffer, that one read of the same bytes gives;
\* the buffer holds the bytes after the last LF, which gave no message
C25_SplitIndependent ==
    LET one == lines_loop(Consumed, <<>>, {})
    IN  /\ ingress = one.sent
        /\ client.line_buffer = one.line_buffer
        /\ client.line_buffer = after_last_LF(Consumed)

\* C25 witness: a frame that arrived in three reads or more gave exactly one
\* message, (od, 4,5,6), and the bytes after its LF are in the buffer
C25_Witness ==
    /\ client.stream = FrameOd \o <<"#", "#", "o", "d", "#", "#", "4">>
    /\ client.read = Len(client.stream)
    /\ client.reads >= 3
    /\ Len(ingress) = 1
    /\ ingress[1].channel = <<"o", "d">>
    /\ ingress[1].data = <<"4", ",", "5", ",", "6">>
    /\ client.line_buffer = <<"#", "#", "o", "d", "#", "#", "4">>

\* the complete lines of a byte stream, each with its LF
RECURSIVE split_lines(_)
split_lines(bytes) ==
    IF position(bytes, LF) = 0 THEN <<>>
    ELSE <<SubSeq(bytes, 1, position(bytes, LF))>>
             \o split_lines(SubSeq(bytes, position(bytes, LF) + 1, Len(bytes)))

\* the line begins with the two bytes of the tag
HasTag(line) == Len(line) >= 2 /\ line[1] = "#" /\ line[2] = "#"

\* the topic part and the payload part of a tagged line that has a second tag
SecondTag(line) == find(SubSeq(line, 3, Len(line)), Sep)
TopicPart(line) == SubSeq(line, 3, SecondTag(line) + 1)
PayloadPart(line) == SubSeq(line, SecondTag(line) + 4, Len(line))

\* the TopicName rule: trimmed, the name is not empty and made of ASCII
\* alphanumerics and '_' only
TopicNameRule(name) ==
    /\ trim_matches(name) # <<>>
    /\ \A i \in 1..Len(trim_matches(name)) :
           is_alphanumeric(trim_matches(name)[i]) \/ trim_matches(name)[i] = "_"

\* a valid frame line: tag, topic that satisfies the rule, tag, payload, LF
ValidFrame(line) == HasTag(line) /\ SecondTag(line) # 0 /\ TopicNameRule(TopicPart(line))

\* the message of a valid frame line
FrameMessage(line) ==
    [channel |-> lowercase(trim_matches(TopicPart(line))),
     data |-> trim_matches(PayloadPart(line))]

\* the messages of the valid frame lines of a byte stream, in order
RECURSIVE ValidFrames(_)
ValidFrames(lines) ==
    IF lines = <<>> THEN <<>>
    ELSE (IF ValidFrame(Head(lines)) THEN <<FrameMessage(Head(lines))>> ELSE <<>>)
             \o ValidFrames(Tail(lines))

\* C26: once the pipe adapter has read to its end a file of whole lines,
\* each of them a valid frame or a line without tag, it has sent one message
\* for every valid frame line of the file, in order, whatever the number of
\* lines one read returned
C26_EveryFrameLineOnce ==
    (/\ client.read = Len(client.stream)
     /\ after_last_LF(client.stream) = <<>>
     /\ \A i \in 1..Len(split_lines(client.stream)) :
            \/ ~HasTag(split_lines(client.stream)[i])
            \/ ValidFrame(split_lines(client.stream)[i]))
        => ingress = ValidFrames(split_lines(client.stream))

\* a byte stream without its complete lines that do not begin with the tag
RECURSIVE without_untagged(_)
without_untagged(bytes) ==
    LET pos == position(bytes, LF)
    IN  IF pos = 0 THEN bytes
        ELSE (IF HasTag(SubSeq(bytes, 1, pos)) THEN SubSeq(bytes, 1, pos) ELSE <<>>)
                 \o without_untagged(SubSeq(bytes, pos + 1, Len(bytes)))

\* C27: the serial decoder has sent the messages, and keeps the buffer, that
\* the same bytes without their complete untagged lines give: an untagged
\* line gives no message and leaves nothing in the buffer
C27_UntaggedLineDiscarded ==
    LET clean == lines_loop(without_untagged(Consumed), <<>>, {})
    IN  /\ ingress = clean.sent
        /\ client.line_buffer = clean.line_buffer
        /\ client.serial_channels = clean.learned

\* C27 witness: an untagged line that holds a tag further on, then a frame,
\* read to the end in two reads or more: the frame alone gave a message
C27_Witness ==
    /\ client.stream = GarbageLine \o FrameOd
    /\ client.read = Len(client.stream)
    /\ client.reads >= 2
    /\ ingress = <<[channel |-> <<"o", "d">>, data |-> <<"4", ",", "5", ",", "6">>]>>
    /\ client.line_buffer = <<>>

\* C28: the serial decoder has sent the messages of the valid frame lines
\* it has read and no other, and has learned their topics and no other: a
\* tagged line whose topic breaks the TopicName rule gives nothing
C28_InvalidTopicDiscarded ==
    /\ ingress = ValidFrames(split_lines(Consumed))
    /\ client.serial_channels =
           {ValidFrames(split_lines(Consumed))[i].channel :
               i \in 1..Len(ValidFrames(split_lines(Consumed)))}

\* the topics of the messages the reader has published to the ingress
Decoded == {ingress[i].channel : i \in 1..Len(ingress)}

\* C29: list_channels of the serial adapter is the set of topics of the
\* messages its reader has published so far, and no step removes a topic
C29_LearnedIsDecoded ==
    /\ [](serial_list_channels = Decoded)
    /\ [][client.serial_channels \subseteq client'.serial_channels]_vars

\* C29 witness: two frames of different topics were decoded and both
\* topics are listed
C29_Witness ==
    /\ Len(ingress) = 2
    /\ serial_list_channels = {<<"o", "d">>, <<"a">>}

\* C30: once the reader has read every byte that send has written on the
\* link, the messages it has decoded are the messages sent, one for one,
\* with the same topic and the same payload
C30_SendDecodeRoundTrip ==
    (client.reader = "running" /\ sends # <<>> /\ client.read = Len(client.stream))
        => ingress = sends

\* the rule of the claim for a hub name: trimmed of whitespace at both ends,
\* the string is not empty and made of letters, digits and '_' only
NameRule(value) ==
    /\ trim_whitespace(value) # <<>>
    /\ \A i \in 1..Len(trim_whitespace(value)) :
           is_alphanumeric(trim_whitespace(value)[i]) \/ trim_whitespace(value)[i] = "_"

\* C31: HubChannelName::try_from(s) succeeds exactly when s satisfies the
\* rule, and then stores the trimmed string in lowercase
C31_HubNameRule ==
    (op.pc = "done" /\ op.kind = "hub_name")
        => /\ op.result.ok <=> NameRule(op.value)
           /\ op.result.ok => op.result.name = lowercase(trim_whitespace(op.value))

\* C32: SerialChannelName::try_from(s) succeeds exactly when
\* HubChannelName::try_from(s) does, and then with the same stored name
C32_SerialNameAsHubName ==
    (op.pc = "done" /\ op.kind = "serial_name")
        => /\ op.result.ok <=> HubChannelName_try_from(op.value).ok
           /\ op.result.ok => op.result.name = HubChannelName_try_from(op.value).name

\* the topic a name denotes: its normalized form
Denotes(name) == HubChannelName_try_from(name).name

\* C33: every key of the server's channel_map is a normalized name, and a
\* Data envelope reaches every other peer subscribed under a name that
\* denotes the same topic
C33_ServerKeysNormalized ==
    /\ [](\A t \in DOMAIN channel_map :
             HubChannelName_try_from(t).ok /\ HubChannelName_try_from(t).name = t)
    /\ [][\A a \in PeerAddrs :
            (Handles(a) /\ Head(peers[a].inbound).type = "Data") =>
                LET m == Head(peers[a].inbound)
                IN  \A b \in PeerAddrs \ {a} :
                        (\E t \in DOMAIN channel_map :
                            Denotes(t) = Denotes(m.channel) /\ b \in channel_map[t])
                        => Len(peers'[b].tx) = Len(peers[b].tx) + 1]_vars

\* C34: at every moment, a user id is among the subscribers of a topic in
\* HubChannels exactly when the topic is bound to the user in HubUsers
C34_RegistriesAgree ==
    \A t \in Topics, u \in AnyUserId :
        (t \in DOMAIN channels /\ u \in channels[t].subscribers)
            <=> (u \in DOMAIN subscribers /\ t \in DOMAIN subscribers[u])

\* C34 witness: unregister_from_channel was called for a user and a topic
\* the user is not subscribed to, while the user is subscribed to another
C34_Witness ==
    /\ op.kind = "unregister"
    /\ ~op.was_in
    /\ op.user_id \in DOMAIN subscribers
    /\ \E t \in Topics \ {op.channel} :
           t \in DOMAIN channels /\ op.user_id \in channels[t].subscribers

\* C35: the receiver register_to_channel(T) is about to return is on the
\* broadcast of T; the broadcast of a topic carries only messages of that
\* topic, a broadcast never carries messages of two topics, and a reader has
\* received only messages of the broadcast its receiver is on
C35_OnlyOwnTopic ==
    /\ (op.pc = "upstream" /\ op.kind = "register") =>
           (op.channel \in DOMAIN channels /\ op.receiver = channels[op.channel].sender)
    /\ \A t \in DOMAIN channels :
           \A i \in 1..Len(bus[channels[t].sender]) :
               bus[channels[t].sender][i].channel = t
    /\ \A b \in ChanIds :
           \A i, j \in 1..Len(bus[b]) : bus[b][i].channel = bus[b][j].channel
    /\ \A u \in DOMAIN readers :
           \A i \in 1..Len(readers[u].got) :
               \E j \in 1..Len(bus[readers[u].chan]) :
                   bus[readers[u].chan][j] = readers[u].got[i]

\* C35 witness: two messages of different topics were both forwarded to
\* subscribers, and a reader of one topic received exactly one of them
C35_Witness ==
    /\ Len(dispatched) = 2
    /\ dispatched[1].outcome = "sent"
    /\ dispatched[2].outcome = "sent"
    /\ ingress[1].channel # ingress[2].channel
    /\ \E u \in DOMAIN readers :
           /\ Len(readers[u].got) = 1
           /\ Len(bus[readers[u].chan]) = 1
           /\ hub_receiver = 2

\* C36: the last message published for the topic, which has a subscriber,
\* is eventually forwarded to it, however many messages were on the ingress
\* before the dispatcher read them
C36_DispatcherKeepsRunning ==
    (Len(ingress) = MaxBurst) ~>
        (\E i \in 1..Len(bus[1]) : bus[1][i].data = MaxBurst)

\* a subscriber of the topic whose register_to_channel call returned an
\* error: it is in the topic's set and no caller was given its receiver
Unreturned(t) ==
    {u \in (IF t \in DOMAIN channels THEN channels[t].subscribers ELSE {}) :
        /\ u \notin DOMAIN handles
        /\ ~(op.pc = "upstream" /\ op.kind = "register" /\ op.user_id = u)}

\* C37: when register_to_channel(T) fails, the id it minted is in T's
\* subscriber set and no caller holds its receiver, the adapters were called
\* in order up to the failing one and none after it; while such an id is in
\* T's set a new register for T and an unregister for T call no adapter
C37_FailedRegistrationCounts ==
    /\ (op.pc = "upstream" /\ op.kind = "register" /\ op.result = "err") =>
           /\ op.channel \in DOMAIN channels
           /\ op.user_id \in channels[op.channel].subscribers
           /\ op.user_id \notin DOMAIN handles
           /\ op.called = [i \in 1..Len(op.called) |-> i]
           /\ Len(op.called) \in op.failed
    /\ (op.pc = "upstream" /\ Unreturned(op.channel) # {}) => ~op.upstream

\* C37 witness: with two adapters attached the first failed a register for
\* T, and a second register for T is in progress that calls no adapter
C37_Witness ==
    /\ Len(hub_nodes) = 2
    /\ op.pc = "upstream"
    /\ op.kind = "register"
    /\ op.before = 1
    /\ ~op.upstream
    /\ Unreturned(op.channel) # {}

\* C38: a send call on a started serial adapter that asked for the port
\* eventually holds it and writes its bytes, whether or not bytes arrive
C38_SendEventuallyWrites ==
    (client.send = "write") ~> (client.send = "idle")

\* the futures of a hub with WebSocket clients
Tasks ==
    {Caller, Dispatcher} \cup {SendOn(i) : i \in DOMAIN client}
        \cup {WsReaderOf(i) : i \in DOMAIN client}

\* the mutexes of the clients
Mutexes ==
    UNION {{client[i].ws_write, client[i].ws_read, client[i].sender} : i \in DOMAIN client}

\* the futures a future waits for: the holder of the mutex whose queue it is
\* in; for the dispatcher, the caller that holds the channels mutex
WaitsFor(w) ==
    {mu.holder : mu \in {m \in Mutexes : Queued(m, w)}}
        \cup (IF w = Dispatcher /\ dispatcher.pc = "forward" /\ LockedByCaller
              THEN {Caller} ELSE {})

\* the futures reached from the set of futures in at most k waits
RECURSIVE Blockers(_, _)
Blockers(set, k) ==
    IF k = 0 THEN set
    ELSE Blockers(set \cup UNION {WaitsFor(w) : w \in set}, k - 1)

\* C39: in a started hub with WebSocket clients no future waits, through
\* any chain of lock holders, for itself, and a mutex with a waiting future
\* has a holder
C39_NoWaitCycle ==
    /\ \A w \in Tasks : w \notin Blockers(WaitsFor(w), Cardinality(Tasks))
    /\ \A mu \in Mutexes : mu.queue # <<>> => mu.holder \in Tasks

\* C39: the dispatcher waits for the caller, which holds the channels mutex
\* and waits for the write half a send call holds, while the reader of the
\* same client holds the read half and the mutex of the ingress sender
C39_Witness ==
    /\ Dispatcher \in {w \in Tasks : Caller \in WaitsFor(w)}
    /\ \E i \in DOMAIN client :
          /\ SendOn(i) \in WaitsFor(Caller)
          /\ client[i].ws_read.holder = WsReaderOf(i)
          /\ client[i].sender.holder = WsReaderOf(i)

====
